---- MODULE Spec2Model ----
(***************************************************************************)
(* Model of the youth-group ministry dashboard (app_final.py, with the     *)
(* summary variants of app_v2.py and app.py).                              *)
(*                                                                         *)
(* The backend is one spreadsheet: the roster sheet Record_DB and one      *)
(* activity sheet per zone.  Every write rewrites a whole sheet.  Reads go *)
(* through st.cache_data, a process-wide cache keyed by the zone name.     *)
(*                                                                         *)
(* Spelling of the Korean literals of the source (the module is ASCII):    *)
(*   status  "active" = jaejeok,  "excluded" = je-oe                       *)
(*   role    "youth", "leader", "zonehead", "staff"                        *)
(*   region  "Dowon", "Saesin", "all" = jeonche (no region filter)         *)
(*   zone    "zone1" = 1-guyeok, "zone5" = 5-guyeok                        *)
(*   period  the integer n stands for the label "n-wol" ("11-wol" = 11);   *)
(*           NoDate stands for an empty date cell                          *)
(*   the six indicator columns, in the order of the source's list:         *)
(*     1 overall attendance, 2 in-person attendance, 3 mysim,              *)
(*     4 ongoing activity, 5 outreach, 6 tithe                             *)
(***************************************************************************)
EXTENDS Integers, Sequences, FiniteSets, TLC

(* ------------------------------ bounds -------------------------------- *)

\* number of write handlers / direct calls in one behaviour
MaxSteps == 3

\* number of backend write calls that may raise in one behaviour
MaxFaults == 1

(* --------------------------- value domains ---------------------------- *)

Names == {"kim", "lee", "park"}

\* the names sync_member_to_zones is called with: the roster's names and
\* one name no roster row has
MemberNames == Names \cup {"choi"}

Zones == {"zone1", "zone5"}

RegionOptions == {"Dowon", "Saesin"}

StatusOptions == {"active", "excluded"}

\* lines 449-453: the region of each zone
zone_region_map == [zone1 |-> "Dowon", zone5 |-> "Saesin"]

\* the months the month-generation tab is asked to create in the model
Months == {11, 12}

NoDate == 0

NumIndicators == 6

ZeroFlags == <<0, 0, 0, 0, 0, 0>>

\* the flag rows a record editor session enters in the model
FlagChoices == {ZeroFlags, <<1, 1, 0, 0, 0, 1>>}

\* columns of the roster frame handed to the member management tab
RosterColumns == {"ireum", "jiyeok", "guyeok", "jikbun", "sangtae", "iphoeil"}

\* outcome of one save_* call: the try block completes, raises before
\* worksheet.clear() took effect, or raises in worksheet.update() after it
Outcomes == {"ok", "raise_before_clear", "raise_after_clear"}

(* ------------------------------ helpers ------------------------------- *)

Range(s) == {s[i] : i \in 1..Len(s)}

MaxOf(S) == CHOOSE m \in S : \A k \in S : k <= m

\* lambda x: int(x.replace('wol', '')) if isinstance(x, str) and 'wol' in x else 0
sort_key(date) == IF date = NoDate THEN 0 ELSE date

\* DataFrame.sort_values('_sort_key', ascending=False): rows in
\* non-increasing key order; rows of equal key keep their relative order
RECURSIVE sort_values(_)
sort_values(df) ==
  IF df = <<>> THEN <<>>
  ELSE LET top == MaxOf({sort_key(df[i].date) : i \in 1..Len(df)})
           IsTop(r) == sort_key(r.date) = top
           NotTop(r) == sort_key(r.date) # top
       IN SelectSeq(df, IsTop) \o sort_values(SelectSeq(df, NotTop))

\* Series.unique(): the distinct values in order of first appearance
RECURSIVE unique(_)
unique(s) ==
  IF s = <<>> THEN <<>>
  ELSE LET NotHead(v) == v # Head(s)
       IN <<Head(s)>> \o unique(SelectSeq(Tail(s), NotHead))

Column(df, f) == [i \in 1..Len(df) |-> df[i][f]]

(* ------------------------------- state -------------------------------- *)

VARIABLES
  record_db,     \* rows of the Record_DB sheet
  sheets,        \* zone name -> rows of that zone's sheet
  master_cache,  \* st.cache_data entry of load_master_db: <<>> or <<frame>>
  zone_cache,    \* zone name -> st.cache_data entry of load_zone_data
  steps,         \* write handlers and direct calls performed so far
  faults,        \* backend write calls that raised so far
  last,          \* what the most recent handler or call did (trace only)
  input,         \* arguments of the aggregation function under check
  result,        \* <<>> or <<what the aggregation function returned>>
  runs           \* the script runs of the browser sessions, step by step

vars == <<record_db, sheets, master_cache, zone_cache, steps, faults, last,
          input, result, runs>>

\* the aggregation functions neither read nor write the backend; the
\* handlers do not touch the arguments held for them
fn_vars == <<input, result>>

app_vars == <<record_db, sheets, master_cache, zone_cache, steps, faults, last,
             runs>>

\* the backend and the cache, as the functions below thread them
World == [sheets |-> sheets, zone_cache |-> zone_cache]

(* --------------------------- backend access --------------------------- *)

\* load_master_db: the cached frame when there is one, else the sheet
load_master_db == IF master_cache # <<>> THEN master_cache[1] ELSE record_db

\* load_zone_data: the cached frame when there is one; else the sheet's
\* rows without the rows whose date cell is empty, which is then cached
load_zone_data(W, zone_name) ==
  IF W.zone_cache[zone_name] # <<>>
  THEN [df |-> W.zone_cache[zone_name][1], W |-> W]
  ELSE LET HasDate(r) == r.date # NoDate
           df == SelectSeq(W.sheets[zone_name], HasDate)
       IN [df |-> df, W |-> [W EXCEPT !.zone_cache[zone_name] = <<df>>]]

\* save_zone_data: clear the sheet and write the frame; False when the
\* backend raises
save_zone_data(W, zone_name, df, outcome) ==
  CASE outcome = "ok" ->
         [ok |-> TRUE, W |-> [W EXCEPT !.sheets[zone_name] = df]]
    [] outcome = "raise_before_clear" ->
         [ok |-> FALSE, W |-> W]
    [] outcome = "raise_after_clear" ->
         [ok |-> FALSE, W |-> [W EXCEPT !.sheets[zone_name] = <<>>]]

\* st.cache_data.clear()
NoZoneCache == [z \in Zones |-> <<>>]

(* --------------------------- trace record ----------------------------- *)

EmptySheets == [z \in Zones |-> <<>>]

NoEmitted == [z \in Zones |-> <<>>]

\* the trace record before any handler ran; every handler overrides the
\* fields it fills
NoOp ==
  [op |-> "none", month |-> NoDate, region |-> "", zone |-> "",
   old_zone |-> "", member |-> "", ret |-> FALSE, again |-> FALSE,
   pre |-> EmptySheets, master |-> <<>>, edited |-> <<>>,
   emitted |-> NoEmitted, loaded |-> EmptySheets, saved |-> {},
   failed |-> {}, calls |-> <<>>, shown |-> "none"]

\* a handler's branch on the result of its save, with the cache as that
\* handler's loads left it, that clears the cache whatever the result
save_feedback_clear_always(ok, zc, mc) ==
  [shown |-> IF ok THEN "success" ELSE "error",
   zone_cache |-> NoZoneCache, master_cache |-> <<>>]

\* the branch every save button ends with: st.success and
\* st.cache_data.clear() when the save returned True, st.error and nothing
\* else when it returned False
save_feedback(ok, zc, mc) ==
  IF ok
  THEN [shown |-> "success", zone_cache |-> NoZoneCache, master_cache |-> <<>>]
  ELSE [shown |-> "error", zone_cache |-> zc, master_cache |-> mc]

\* zones whose save is asked to raise by the outcome choice oc
Raising(oc) == {z \in Zones : oc[z] # "ok"}

AllOk == [z \in Zones |-> "ok"]

\* the outcome choices that stay within the budget of raising calls
OutcomeChoices ==
  {oc \in [Zones -> Outcomes] : faults + Cardinality(Raising(oc)) <= MaxFaults}

MasterOutcomes(oc) ==
  {om \in Outcomes :
     faults + Cardinality(Raising(oc)) + (IF om = "ok" THEN 0 ELSE 1) <= MaxFaults}

(* ------------------------ create_monthly_records ---------------------- *)

\* lines 191-198: "2024-nyeon 11-wol" and "11" and "11-wol" all give
\* "11-wol"; a target is [year, month, suffix], year 0 for a bare label
normalize_month(target_month) == target_month.month

TargetForms(month) ==
  {[year |-> 0, month |-> month, suffix |-> TRUE],
   [year |-> 0, month |-> month, suffix |-> FALSE],
   [year |-> 2024, month |-> month, suffix |-> TRUE]}

\* lines 201-204
filter_region(master_df, region_filter) ==
  IF region_filter # "all"
  THEN LET InRegion(m) == m.region = region_filter
       IN SelectSeq(master_df, InRegion)
  ELSE master_df

\* zone_members without the status test
zone_members_any_status(filtered_df, zone) ==
  LET InZone(m) == m.zone = zone
  IN SelectSeq(filtered_df, InZone)

\* lines 216-219: the active roster rows of the zone
zone_members(filtered_df, zone) ==
  LET ActiveInZone(m) == m.zone = zone /\ m.status = "active"
  IN SelectSeq(filtered_df, ActiveInZone)

\* lines 228-244: one zero-flag record per roster row
new_records(members, date_str) ==
  [i \in 1..Len(members) |->
     [date |-> date_str, name |-> members[i].name, role |-> members[i].role,
      status |-> members[i].status, flags |-> ZeroFlags]]

\* combine that writes the new block alone
combine_overwrite(new_df, existing_df) == sort_values(new_df)

\* combine without the sort
combine_unsorted(new_df, existing_df) ==
  IF existing_df # <<>> THEN new_df \o existing_df ELSE new_df

\* lines 246-259: new rows on top of the loaded history, then the sort
combine(new_df, existing_df) ==
  sort_values(IF existing_df # <<>> THEN new_df \o existing_df ELSE new_df)

\* the loop over the zones that ends at the first save_zone_data that
\* returned False
RECURSIVE create_loop_stop_on_failure(_, _, _, _, _)
create_loop_stop_on_failure(zones, filtered_df, date_str, oc, acc) ==
  IF zones = <<>> THEN acc
  ELSE
    LET zone == Head(zones)
        members == zone_members(filtered_df, zone)
    IN IF zone = "" \/ members = <<>>
       THEN create_loop_stop_on_failure(Tail(zones), filtered_df, date_str,
                                        oc, acc)
       ELSE
         LET ld == load_zone_data(acc.W, zone)
             new_df == new_records(members, date_str)
             combined_df == combine(new_df, ld.df)
             sv == save_zone_data(ld.W, zone, combined_df, oc[zone])
         IN create_loop_stop_on_failure(
              IF sv.ok THEN Tail(zones) ELSE <<>>, filtered_df, date_str, oc,
              [W |-> sv.W,
               success_count |-> acc.success_count + (IF sv.ok THEN 1 ELSE 0),
               emitted |-> [acc.emitted EXCEPT ![zone] = new_df],
               loaded |-> [acc.loaded EXCEPT ![zone] = ld.df],
               tried |-> acc.tried \cup {zone},
               saved |-> IF sv.ok THEN acc.saved \cup {zone} ELSE acc.saved])

\* lines 211-263: the loop over the zones, in the order of unique();
\* acc carries the backend, the success count and the trace
RECURSIVE create_loop(_, _, _, _, _)
create_loop(zones, filtered_df, date_str, oc, acc) ==
  IF zones = <<>> THEN acc
  ELSE
    LET zone == Head(zones)
        members == zone_members(filtered_df, zone)
    IN IF zone = "" \/ members = <<>>
       THEN create_loop(Tail(zones), filtered_df, date_str, oc, acc)
       ELSE
         LET ld == load_zone_data(acc.W, zone)
             new_df == new_records(members, date_str)
             combined_df == combine(new_df, ld.df)
             sv == save_zone_data(ld.W, zone, combined_df, oc[zone])
         IN create_loop(Tail(zones), filtered_df, date_str, oc,
              [W |-> sv.W,
               success_count |-> acc.success_count + (IF sv.ok THEN 1 ELSE 0),
               emitted |-> [acc.emitted EXCEPT ![zone] = new_df],
               loaded |-> [acc.loaded EXCEPT ![zone] = ld.df],
               tried |-> acc.tried \cup {zone},
               saved |-> IF sv.ok THEN acc.saved \cup {zone} ELSE acc.saved])

\* create_monthly_records(client, master_df, target_month, region_filter)
create_monthly_records(W, master_df, target_month, region_filter, oc) ==
  LET date_str == normalize_month(target_month)
      filtered_df == filter_region(master_df, region_filter)
      zones == unique(Column(filtered_df, "zone"))
      out == create_loop(zones, filtered_df, date_str, oc,
               [W |-> W, success_count |-> 0, emitted |-> NoEmitted,
                loaded |-> EmptySheets, tried |-> {}, saved |-> {}])
  IN [W |-> out.W, ret |-> out.success_count > 0, date_str |-> date_str,
      emitted |-> out.emitted, loaded |-> out.loaded, tried |-> out.tried,
      saved |-> out.saved]

\* the trace record of a create_monthly_records run
CreateTrace(op, res, master_df, region_filter) ==
  [NoOp EXCEPT !.op = op, !.month = res.date_str, !.region = region_filter,
     !.ret = res.ret, !.pre = sheets, !.master = master_df,
     !.emitted = res.emitted, !.loaded = res.loaded, !.saved = res.saved,
     !.failed = res.tried \ res.saved,
     !.again = /\ last.op \in {"generate", "create"}
               /\ last.month = res.date_str
               /\ last.region = region_filter
               /\ last.master = master_df
               /\ last.ret
               /\ last.failed = {}]

\* render_monthly_generation_tab, the generate button: the tab passes
\* f"{month}-wol" and clears the cache when the function returned True
render_monthly_generation_tab(month, region_filter, oc) ==
  /\ steps < MaxSteps
  /\ LET master_df == load_master_db
         target_month == [year |-> 0, month |-> month, suffix |-> TRUE]
         res == create_monthly_records(World, master_df, target_month,
                                       region_filter, oc)
         fb == save_feedback(res.ret, res.W.zone_cache, <<master_df>>)
     IN /\ Raising(oc) \subseteq res.tried
        /\ faults' = faults + Cardinality(Raising(oc))
        /\ sheets' = res.W.sheets
        /\ zone_cache' = fb.zone_cache
        /\ master_cache' = fb.master_cache
        /\ last' = [CreateTrace("generate", res, master_df, region_filter)
                      EXCEPT !.shown = fb.shown]
  /\ steps' = steps + 1
  /\ UNCHANGED <<record_db, input, result, runs>>

(* ------------------------ sync_member_to_zones ------------------------ *)

\* line 284: old_df.loc[old_df[name] == member_name, status] = excluded
exclude_member(old_df, member_name) ==
  [i \in 1..Len(old_df) |->
     IF old_df[i].name = member_name
     THEN [old_df[i] EXCEPT !.status = "excluded"]
     ELSE old_df[i]]

\* lines 292-295: the date of the first row that has the largest sort key
latest_date_of(df) ==
  LET top == MaxOf({sort_key(df[i].date) : i \in 1..Len(df)})
      first == CHOOSE i \in 1..Len(df) :
                 /\ sort_key(df[i].date) = top
                 /\ \A j \in 1..(i - 1) : sort_key(df[j].date) # top
  IN df[first].date

\* existing_rows without the look-up: the member is taken to be new
existing_rows_unchecked(new_df, latest_date, member_name) == <<>>

\* lines 299-302
existing_rows(new_df, latest_date, member_name) ==
  LET Same(r) == r.date = latest_date /\ r.name = member_name
  IN SelectSeq(new_df, Same)

\* lines 306-317
new_record(latest_date, member_name, member_info) ==
  [date |-> latest_date, name |-> member_name, role |-> member_info.role,
   status |-> "active", flags |-> ZeroFlags]

\* the exclusion without the test old_zone != new_zone of line 281
sync_old_zone_any_zone(W, member_name, new_zone, old_zone, oc) ==
  IF old_zone # ""
  THEN LET ld == load_zone_data(W, old_zone)
       IN IF ld.df # <<>>
          THEN [W |-> save_zone_data(ld.W, old_zone,
                        exclude_member(ld.df, member_name), oc[old_zone]).W,
                tried |-> {old_zone}, loaded |-> {old_zone}, df |-> ld.df]
          ELSE [W |-> ld.W, tried |-> {}, loaded |-> {old_zone}, df |-> ld.df]
  ELSE [W |-> W, tried |-> {}, loaded |-> {}, df |-> <<>>]

\* lines 281-285: the exclusion in the old zone; the result of the save
\* is not looked at
sync_old_zone(W, member_name, new_zone, old_zone, oc) ==
  IF old_zone # "" /\ old_zone # new_zone
  THEN LET ld == load_zone_data(W, old_zone)
       IN IF ld.df # <<>>
          THEN [W |-> save_zone_data(ld.W, old_zone,
                        exclude_member(ld.df, member_name), oc[old_zone]).W,
                tried |-> {old_zone}, loaded |-> {old_zone}, df |-> ld.df]
          ELSE [W |-> ld.W, tried |-> {}, loaded |-> {old_zone}, df |-> ld.df]
  ELSE [W |-> W, tried |-> {}, loaded |-> {}, df |-> <<>>]

\* lines 288-319: the insertion in the new zone's most recent month
sync_new_zone(W, member_name, member_info, new_zone, oc) ==
  LET ld == load_zone_data(W, new_zone)
  IN IF ld.df # <<>>
     THEN LET latest_date == latest_date_of(ld.df)
          IN IF existing_rows(ld.df, latest_date, member_name) = <<>>
             THEN [W |-> save_zone_data(ld.W, new_zone,
                           Append(ld.df, new_record(latest_date, member_name,
                                                    member_info)),
                           oc[new_zone]).W,
                   tried |-> {new_zone}, df |-> ld.df, appended |-> TRUE]
             ELSE [W |-> ld.W, tried |-> {}, df |-> ld.df, appended |-> FALSE]
     ELSE [W |-> ld.W, tried |-> {}, df |-> ld.df, appended |-> FALSE]

\* sync_member_to_zones(client, master_df, member_name, new_zone, old_zone);
\* old_zone "" stands for None.  .iloc[0] raises when the roster has no
\* row of that name: the except branch returns False
sync_member_to_zones(W, master_df, member_name, new_zone, old_zone, oc) ==
  LET IsMember(m) == m.name = member_name
      found == SelectSeq(master_df, IsMember)
  IN IF found = <<>>
     THEN [W |-> W, ret |-> FALSE, tried |-> {}, df |-> <<>>,
           old_df |-> <<>>, appended |-> FALSE]
     ELSE LET o == sync_old_zone(W, member_name, new_zone, old_zone, oc)
              n == sync_new_zone(o.W, member_name, found[1], new_zone, oc)
          IN [W |-> n.W, ret |-> TRUE, tried |-> o.tried \cup n.tried,
              df |-> n.df, old_df |-> o.df, appended |-> n.appended]

\* a direct call of sync_member_to_zones with the roster as loaded
sync_call(member_name, new_zone, old_zone, oc) ==
  /\ steps < MaxSteps
  /\ LET master_df == load_master_db
         res == sync_member_to_zones(World, master_df, member_name,
                                     new_zone, old_zone, oc)
     IN /\ Raising(oc) \subseteq res.tried
        /\ faults' = faults + Cardinality(Raising(oc))
        /\ sheets' = res.W.sheets
        /\ zone_cache' = res.W.zone_cache
        /\ master_cache' = <<master_df>>
        /\ last' = [NoOp EXCEPT !.op = "sync", !.member = member_name,
                      !.zone = new_zone, !.old_zone = old_zone,
                      !.ret = res.ret, !.pre = sheets, !.master = master_df,
                      !.loaded = [z \in Zones |->
                                    IF z = new_zone THEN res.df
                                    ELSE IF z = old_zone THEN res.old_df
                                    ELSE <<>>],
                      !.saved = res.tried \ Raising(oc),
                      !.failed = Raising(oc),
                      !.again = /\ last.op = "sync"
                                /\ last.member = member_name
                                /\ last.zone = new_zone
                                /\ last.old_zone = old_zone]
  /\ steps' = steps + 1
  /\ UNCHANGED <<record_db, input, result, runs>>

(* --------------------------- roster editing --------------------------- *)

\* save_master_db: clear Record_DB and write the frame
save_master_db(db, df, outcome) ==
  CASE outcome = "ok" -> [ok |-> TRUE, db |-> df]
    [] outcome = "raise_before_clear" -> [ok |-> FALSE, db |-> db]
    [] outcome = "raise_after_clear" -> [ok |-> FALSE, db |-> <<>>]

\* the frame without its row i
delete_row(df, i) == SubSeq(df, 1, i - 1) \o SubSeq(df, i + 1, Len(df))

\* the frames st.data_editor hands back in the model: the roster as
\* loaded, or one row with its status, or its zone and region, edited, or
\* (num_rows="dynamic", line 558) one row deleted; added rows are not drawn
RosterEdits(master_df) ==
  {master_df}
  \cup {[master_df EXCEPT ![i].status = st] :
          i \in 1..Len(master_df), st \in StatusOptions}
  \cup UNION {{[master_df EXCEPT ![i].zone = z, ![i].region = rg] :
                  rg \in {master_df[i].region, zone_region_map[z]}} :
                i \in 1..Len(master_df), z \in Zones}
  \cup {delete_row(master_df, i) : i \in 1..Len(master_df)}

\* the index labels of the edited frame, counted from 1: a row keeps the
\* label of the roster row it comes from, so the rows below a deleted
\* row are one label ahead of their position
row_labels(master_df, edited_df) ==
  IF Len(edited_df) = Len(master_df)
  THEN [i \in 1..Len(edited_df) |-> i]
  ELSE LET d == CHOOSE k \in 1..Len(master_df) :
                  /\ edited_df = delete_row(master_df, k)
                  /\ \A j \in 1..(k - 1) : edited_df # delete_row(master_df, j)
       IN [i \in 1..Len(edited_df) |-> IF i < d THEN i ELSE i + 1]

\* line 593: 'name' in row, a test on the labels of the row
HasNameLabel == "name" \in RosterColumns

\* lines 590-602: the loop over the edited rows; idx counts from 1
RECURSIVE sync_changed(_, _, _, _, _)
sync_changed(idx, master_df, edited_df, oc, acc) ==
  IF idx > Len(edited_df) THEN acc
  ELSE
    LET row == edited_df[idx]
        label == row_labels(master_df, edited_df)[idx]
    IN IF /\ label <= Len(master_df)
          /\ HasNameLabel
          /\ row.name = master_df[label].name
          /\ row.zone # master_df[label].zone
       THEN LET r == sync_member_to_zones(acc.W, edited_df, row.name,
                                          row.zone, master_df[label].zone, oc)
            IN sync_changed(idx + 1, master_df, edited_df, oc,
                 [W |-> r.W,
                  calls |-> Append(acc.calls,
                              <<row.name, row.zone, master_df[label].zone>>),
                  tried |-> acc.tried \cup r.tried])
       ELSE sync_changed(idx + 1, master_df, edited_df, oc, acc)

\* render_member_management_tab, the save button
render_member_management_tab(edited_df, oc, om) ==
  /\ steps < MaxSteps
  /\ LET master_df == load_master_db
         sy == IF master_df # edited_df
               THEN sync_changed(1, master_df, edited_df, oc,
                      [W |-> World, calls |-> <<>>, tried |-> {}])
               ELSE [W |-> World, calls |-> <<>>, tried |-> {}]
         sv == save_master_db(record_db, edited_df, om)
         nfail == Cardinality(Raising(oc)) + (IF om = "ok" THEN 0 ELSE 1)
         fb == save_feedback(sv.ok, sy.W.zone_cache, <<master_df>>)
     IN /\ edited_df \in RosterEdits(master_df)
        /\ Raising(oc) \subseteq sy.tried
        /\ faults' = faults + nfail
        /\ sheets' = sy.W.sheets
        /\ record_db' = sv.db
        /\ zone_cache' = fb.zone_cache
        /\ master_cache' = fb.master_cache
        /\ last' = [NoOp EXCEPT !.op = "roster", !.ret = sv.ok,
                      !.shown = fb.shown,
                      !.pre = sheets, !.master = master_df,
                      !.edited = edited_df, !.calls = sy.calls,
                      !.saved = sy.tried \ Raising(oc),
                      !.failed = Raising(oc)]
  /\ steps' = steps + 1
  /\ UNCHANGED <<fn_vars, runs>>

(* ---------------------------- record editor --------------------------- *)

\* the rows of the other months, then the edited rows, as concatenated
\* at line 749 and not sorted
replace_month_unsorted(zone_df, selected_month, edited_df) ==
  LET Other(r) == r.date # selected_month
  IN SelectSeq(zone_df, Other) \o edited_df

\* line 746-756: the rows of the other months, then the edited rows, sorted
replace_month(zone_df, selected_month, edited_df) ==
  LET Other(r) == r.date # selected_month
  IN sort_values(SelectSeq(zone_df, Other) \o edited_df)

\* render_data_input_tab, the save button: row i of the shown month gets
\* the status and the flags the user entered
render_data_input_tab(selected_zone, selected_month, i, status, flags, outcome) ==
  /\ steps < MaxSteps
  /\ LET master_df == load_master_db
         ld == load_zone_data(World, selected_zone)
         OfMonth(r) == r.date = selected_month
         month_df == SelectSeq(ld.df, OfMonth)
     IN /\ selected_zone \in Range(Column(master_df, "zone"))
        /\ ld.df # <<>>
        /\ month_df # <<>>
        /\ i \in 1..Len(month_df)
        /\ status = month_df[i].status \/ flags = month_df[i].flags
        /\ LET edited_df == [month_df EXCEPT ![i].status = status,
                                             ![i].flags = flags]
               sv == save_zone_data(ld.W, selected_zone,
                       replace_month(ld.df, selected_month, edited_df),
                       outcome)
               nfail == IF outcome = "ok" THEN 0 ELSE 1
               fb == save_feedback(sv.ok, sv.W.zone_cache, <<master_df>>)
           IN /\ faults' = faults + nfail
              /\ sheets' = sv.W.sheets
              /\ zone_cache' = fb.zone_cache
              /\ master_cache' = fb.master_cache
              /\ last' = [NoOp EXCEPT !.op = "editor", !.ret = sv.ok,
                            !.shown = fb.shown,
                            !.zone = selected_zone, !.month = selected_month,
                            !.pre = sheets, !.master = master_df,
                            !.edited = edited_df,
                            !.loaded = [EmptySheets EXCEPT
                                          ![selected_zone] = ld.df],
                            !.saved = IF sv.ok THEN {selected_zone} ELSE {},
                            !.failed = IF sv.ok THEN {} ELSE {selected_zone}]
  /\ steps' = steps + 1
  /\ UNCHANGED <<record_db, input, result, runs>>

(* ------------------------- reads and the cache ------------------------ *)

\* render_data_input_tab without a button pressed, lines 682-692: the
\* rerun loads the roster and the selected zone, which caches both
view_zone_data(selected_zone) ==
  /\ LET master_df == load_master_db
         ld == load_zone_data(World, selected_zone)
     IN /\ selected_zone \in Range(Column(master_df, "zone"))
        /\ zone_cache' = ld.W.zone_cache
        /\ master_cache' = <<master_df>>
  /\ UNCHANGED <<record_db, sheets, steps, faults, last, input, result,
                 runs>>

\* the refresh button: st.cache_data.clear()
refresh ==
  /\ master_cache # <<>> \/ zone_cache # NoZoneCache
  /\ master_cache' = <<>>
  /\ zone_cache' = NoZoneCache
  /\ UNCHANGED <<record_db, sheets, steps, faults, last, input, result,
                 runs>>

\* @st.cache_data(ttl=300): an entry of load_zone_data expires
ttl_expire_zone(zone_name) ==
  /\ zone_cache[zone_name] # <<>>
  /\ zone_cache' = [zone_cache EXCEPT ![zone_name] = <<>>]
  /\ UNCHANGED <<record_db, sheets, master_cache, steps, faults, last, input,
                 result, runs>>

\* @st.cache_data(ttl=60): the entry of load_master_db expires
ttl_expire_master ==
  /\ master_cache # <<>>
  /\ master_cache' = <<>>
  /\ UNCHANGED <<record_db, sheets, zone_cache, steps, faults, last, input,
                 result, runs>>

\* a direct call of create_monthly_records, in any of the label forms;
\* nothing clears the cache afterwards
create_call(target_month, region_filter, oc) ==
  /\ steps < MaxSteps
  /\ LET master_df == load_master_db
         res == create_monthly_records(World, master_df, target_month,
                                       region_filter, oc)
     IN /\ Raising(oc) \subseteq res.tried
        /\ faults' = faults + Cardinality(Raising(oc))
        /\ sheets' = res.W.sheets
        /\ zone_cache' = res.W.zone_cache
        /\ master_cache' = <<master_df>>
        /\ last' = CreateTrace("create", res, master_df, region_filter)
  /\ steps' = steps + 1
  /\ UNCHANGED <<record_db, input, result, runs>>

(* --------------------------- specifications --------------------------- *)

\* the browser sessions; both run main() against the same spreadsheet and
\* the same process-wide cache
Sessions == {"a", "b"}

\* no session is inside a script run
NoRuns ==
  [run |-> [s \in Sessions |->
              [pc |-> "idle", zone |-> "", read |-> <<>>, df |-> <<>>,
               shown |-> "none"]],
   order |-> <<>>, overlap |-> FALSE]

\* setup_initial_data.py: a leader and youths per zone, every member
\* active, the region taken from the zone; the zone sheets hold the
\* header row only
InitialRoster ==
  <<[name |-> "kim", region |-> "Dowon", zone |-> "zone1",
     role |-> "leader", status |-> "active"],
    [name |-> "lee", region |-> "Dowon", zone |-> "zone1",
     role |-> "youth", status |-> "active"],
    [name |-> "park", region |-> "Saesin", zone |-> "zone5",
     role |-> "leader", status |-> "active"]>>

AppInit ==
  /\ record_db = InitialRoster
  /\ sheets = EmptySheets
  /\ master_cache = <<>>
  /\ zone_cache = NoZoneCache
  /\ steps = 0
  /\ faults = 0
  /\ last = NoOp
  /\ runs = NoRuns

Init ==
  /\ AppInit
  /\ input = [kind |-> "none"]
  /\ result = <<>>

\* the application as wired: the handlers of the tabs and the cache
Next ==
  \/ \E month \in Months, region_filter \in {"all"} \cup RegionOptions,
        oc \in OutcomeChoices :
       render_monthly_generation_tab(month, region_filter, oc)
  \/ \E edited_df \in RosterEdits(load_master_db), oc \in OutcomeChoices :
       \E om \in MasterOutcomes(oc) :
         render_member_management_tab(edited_df, oc, om)
  \/ \E selected_zone \in Zones, selected_month \in Months,
        status \in StatusOptions, flags \in FlagChoices,
        outcome \in MasterOutcomes(AllOk) :
       \E i \in 1..Len(load_zone_data(World, selected_zone).df) :
         render_data_input_tab(selected_zone, selected_month, i, status, flags,
                               outcome)
  \/ \E selected_zone \in Zones : view_zone_data(selected_zone)
  \/ refresh
  \/ \E zone_name \in Zones : ttl_expire_zone(zone_name)
  \/ ttl_expire_master

Spec == Init /\ [][Next]_vars

\* the functions of the module called directly, in any order, with the
\* record editor and the cache
NextApi ==
  \/ \E member_name \in MemberNames, new_zone \in Zones,
        old_zone \in Zones \cup {""}, oc \in OutcomeChoices :
       sync_call(member_name, new_zone, old_zone, oc)
  \/ \E month \in Months, region_filter \in {"all"} \cup RegionOptions,
        oc \in OutcomeChoices :
       \E target_month \in TargetForms(month) :
         create_call(target_month, region_filter, oc)
  \/ \E selected_zone \in Zones, selected_month \in Months,
        status \in StatusOptions, flags \in FlagChoices,
        outcome \in MasterOutcomes(AllOk) :
       \E i \in 1..Len(load_zone_data(World, selected_zone).df) :
         render_data_input_tab(selected_zone, selected_month, i, status, flags,
                               outcome)
  \/ refresh
  \/ \E zone_name \in Zones : ttl_expire_zone(zone_name)
  \/ ttl_expire_master

SpecApi == Init /\ [][NextApi]_vars

(* -------------------------- concurrent sessions ----------------------- *)

\* Streamlit runs the script of every browser session in a thread of its
\* own; nothing in the source locks a sheet.  A save is followed here call
\* by call: the load and the frame built from it, worksheet.clear(),
\* worksheet.update(), and the branch after the save returned.

\* another session has read the zone and has not yet written it back
OtherHasRead(s, zone) ==
  \E t \in Sessions \ {s} :
    /\ runs.run[t].pc \in {"loaded", "cleared"}
    /\ runs.run[t].zone = zone

\* a script run has read the zone and built the frame df to write
StartRun(s, zone, read, df) ==
  [runs EXCEPT !.run[s] = [pc |-> "loaded", zone |-> zone, read |-> read,
                           df |-> df, shown |-> "none"],
               !.overlap = @ \/ OtherHasRead(s, zone)]

\* render_data_input_tab up to the call of save_zone_data, lines 691-756
editor_read(s, selected_zone, selected_month, i, status, flags) ==
  /\ runs.run[s].pc = "idle"
  /\ LET master_df == load_master_db
         ld == load_zone_data(World, selected_zone)
         OfMonth(r) == r.date = selected_month
         month_df == SelectSeq(ld.df, OfMonth)
     IN /\ selected_zone \in Range(Column(master_df, "zone"))
        /\ ld.df # <<>>
        /\ month_df # <<>>
        /\ i \in 1..Len(month_df)
        /\ status = month_df[i].status \/ flags = month_df[i].flags
        /\ LET edited_df == [month_df EXCEPT ![i].status = status,
                                             ![i].flags = flags]
           IN runs' = StartRun(s, selected_zone, ld.df,
                        replace_month(ld.df, selected_month, edited_df))
        /\ zone_cache' = ld.W.zone_cache
        /\ master_cache' = <<master_df>>
  /\ UNCHANGED <<record_db, sheets, steps, faults, last, input, result>>

\* the generate button for a region whose roster rows name one zone:
\* create_monthly_records up to the call of save_zone_data, lines 191-259
generate_read(s, month, region_filter) ==
  /\ runs.run[s].pc = "idle"
  /\ LET master_df == load_master_db
         filtered_df == filter_region(master_df, region_filter)
         zones == unique(Column(filtered_df, "zone"))
     IN /\ Len(zones) = 1
        /\ zones[1] # ""
        /\ zone_members(filtered_df, zones[1]) # <<>>
        /\ LET zone == zones[1]
               ld == load_zone_data(World, zone)
               new_df == new_records(zone_members(filtered_df, zone),
                           normalize_month([year |-> 0, month |-> month,
                                            suffix |-> TRUE]))
           IN /\ runs' = StartRun(s, zone, ld.df, combine(new_df, ld.df))
              /\ zone_cache' = ld.W.zone_cache
        /\ master_cache' = <<master_df>>
  /\ UNCHANGED <<record_db, sheets, steps, faults, last, input, result>>

\* save_zone_data line 174: worksheet.clear()
sheet_clear(s) ==
  /\ runs.run[s].pc = "loaded"
  /\ sheets' = [sheets EXCEPT ![runs.run[s].zone] = <<>>]
  /\ runs' = [runs EXCEPT !.run[s].pc = "cleared"]
  /\ UNCHANGED <<record_db, master_cache, zone_cache, steps, faults, last,
                 input, result>>

\* worksheet.update(data, 'A1'): the rows of data are written from the
\* first row down; rows of the sheet below them are not touched
range_update(cells, data) == data \o SubSeq(cells, Len(data) + 1, Len(cells))

\* save_zone_data lines 175-178: worksheet.update(), return True
sheet_update(s) ==
  /\ runs.run[s].pc = "cleared"
  /\ sheets' = [sheets EXCEPT ![runs.run[s].zone] =
                                range_update(@, runs.run[s].df)]
  /\ runs' = [runs EXCEPT !.run[s].pc = "written", !.order = Append(@, s)]
  /\ UNCHANGED <<record_db, master_cache, zone_cache, steps, faults, last,
                 input, result>>

\* the branch after the save returned True, lines 759-762 and 663-666
save_done(s) ==
  /\ runs.run[s].pc = "written"
  /\ LET fb == save_feedback(TRUE, zone_cache, master_cache)
     IN /\ zone_cache' = fb.zone_cache
        /\ master_cache' = fb.master_cache
        /\ runs' = [runs EXCEPT !.run[s].pc = "done",
                                !.run[s].shown = fb.shown]
  /\ UNCHANGED <<record_db, sheets, steps, faults, last, input, result>>

\* the zone sheets after the month 11 was generated for every region
ProvisionedSheets ==
  create_monthly_records([sheets |-> EmptySheets, zone_cache |-> NoZoneCache],
                         InitialRoster,
                         [year |-> 0, month |-> 11, suffix |-> TRUE],
                         "all", AllOk).W.sheets

InitSessions ==
  /\ record_db = InitialRoster
  /\ sheets = ProvisionedSheets
  /\ master_cache = <<>>
  /\ zone_cache = NoZoneCache
  /\ steps = 0
  /\ faults = 0
  /\ last = NoOp
  /\ runs = NoRuns
  /\ input = [kind |-> "none"]
  /\ result = <<>>

\* two sessions, each pressing one save or generate button
NextSessions ==
  \/ \E s \in Sessions, selected_zone \in Zones, selected_month \in Months,
        status \in StatusOptions, flags \in FlagChoices :
       \E i \in 1..Len(load_zone_data(World, selected_zone).df) :
         editor_read(s, selected_zone, selected_month, i, status, flags)
  \/ \E s \in Sessions, month \in Months, region_filter \in RegionOptions :
       generate_read(s, month, region_filter)
  \/ \E s \in Sessions : sheet_clear(s)
  \/ \E s \in Sessions : sheet_update(s)
  \/ \E s \in Sessions : save_done(s)
  \/ refresh
  \/ \E zone_name \in Zones : ttl_expire_zone(zone_name)
  \/ ttl_expire_master

SpecSessions == InitSessions /\ [][NextSessions]_vars

(* ------------------------- zone summaries ----------------------------- *)

\* The arithmetic of the source is binary floating point; it is modelled in
\* exact integer arithmetic.  With at most seven summed rows no quotient
\* sum / total * 100 lies on a half, so the tie rule of round() is the only
\* place where the two could differ, and the statements below do not depend
\* on it.

\* Python's round(n / d) for n >= 0, d > 0: nearest integer, ties to even
round_half_even(n, d) ==
  LET q == n \div d
      r == n % d
  IN IF 2 * r < d THEN q
     ELSE IF 2 * r > d THEN q + 1
     ELSE IF q % 2 = 0 THEN q ELSE q + 1

\* the list `indicators` of the source, by column position
indicators == <<1, 2, 3, 4, 5, 6>>

\* the roles that make a member the zone's leader (isin([...]))
LeaderRoles == {"leader", "zonehead", "staff"}

RECURSIVE column_sum(_, _)
\* active_df[column].sum()
column_sum(df, k) ==
  IF df = <<>> THEN 0 ELSE Head(df).flags[k] + column_sum(Tail(df), k)

\* what the functions return for "no summary" (None)
NoSummary == [found |-> FALSE]

\* leader[0] if len(leader) > 0 else '-'
leader_name_of(active_df) ==
  LET IsLeader(r) == r.role \in LeaderRoles
      leader == SelectSeq(active_df, IsLeader)
  IN IF Len(leader) > 0 THEN leader[1].name ELSE "-"

\* the dictionary both variants return, from the rounded rates
summary_dict(region, zone_name, active_df, total_members, rate) ==
  [found |-> TRUE, jiyeok |-> region, guyeok |-> zone_name,
   leader |-> leader_name_of(active_df), total |-> total_members,
   rates |-> [k \in 1..NumIndicators |-> rate[k]],
   hanja |-> rate[5]]

\* the summary over every row of the month, whatever its status
calculate_zone_summary_all_rows(zone_df, month, zone_name, region) ==
  LET InMonth(r) == r.date = month
      month_df == SelectSeq(zone_df, InMonth)
      total_members == Len(month_df)
      rate == [k \in 1..NumIndicators |->
                 round_half_even(100 * column_sum(month_df, k),
                                 total_members)]
  IN IF month_df = <<>> THEN NoSummary
     ELSE summary_dict(region, zone_name, month_df, total_members, rate)

\* the summary without the check for an empty active_df
calculate_zone_summary_unchecked(zone_df, month, zone_name, region) ==
  LET InMonth(r) == r.date = month
      month_df == SelectSeq(zone_df, InMonth)
      IsActive(r) == r.status = "active"
      active_df == SelectSeq(month_df, IsActive)
      total_members == Len(active_df)
      rate == [k \in 1..NumIndicators |->
                 IF total_members > 0
                   THEN round_half_even(100 * column_sum(active_df, k),
                                        total_members)
                   ELSE 0]
  IN IF month_df = <<>> THEN NoSummary
     ELSE summary_dict(region, zone_name, active_df, total_members, rate)

\* app_final.py calculate_zone_summary: the period is the label itself and
\* the divisor is the number of active rows
calculate_zone_summary(zone_df, month, zone_name, region) ==
  IF zone_df = <<>> THEN NoSummary
  ELSE
    LET InMonth(r) == r.date = month
        month_df == SelectSeq(zone_df, InMonth)
        IsActive(r) == r.status = "active"
        active_df == SelectSeq(month_df, IsActive)
        total_members == Len(active_df)
        rate == [k \in 1..NumIndicators |->
                   IF total_members > 0
                     THEN round_half_even(100 * column_sum(active_df, k),
                                          total_members)
                     ELSE 0]
    IN IF month_df = <<>> THEN NoSummary
       ELSE IF active_df = <<>> THEN NoSummary
       ELSE summary_dict(region, zone_name, active_df, total_members, rate)

\* NaT, the value pd.to_datetime(errors='coerce') gives an unparsable cell
NaT == <<0, 0, 0>>

\* pd.to_datetime(cell, format='%Y-%m-%d', errors='coerce'); a cell is
\* <<year, month, day>> as written in the sheet
\* (days above 28 do not occur in the cells drawn)
to_datetime(cell) ==
  IF cell[2] \in 1..12 /\ cell[3] \in 1..28 THEN cell ELSE NaT

\* zone_df['date'] = pd.to_datetime(zone_df['date'], ...)
parse_dates(zone_df) ==
  [i \in 1..Len(zone_df) |-> [zone_df[i] EXCEPT !.date = to_datetime(@)]]

\* app_v2.py calculate_zone_summary: rows carry full dates, the period is
\* <<year, month>>, and the divisor is the number of distinct active names
calculate_zone_summary_v2(zone_df, month, zone_name, region) ==
  IF zone_df = <<>> THEN NoSummary
  ELSE
    LET parsed == parse_dates(zone_df)
        InMonth(r) == r.date[1] = month[1] /\ r.date[2] = month[2]
        month_df == SelectSeq(parsed, InMonth)
        IsActive(r) == r.status = "active"
        active_df == SelectSeq(month_df, IsActive)
        total_members == Len(unique(Column(active_df, "name")))
        rate == [k \in 1..NumIndicators |->
                   round_half_even(100 * column_sum(active_df, k),
                                   total_members)]
    IN IF month_df = <<>> THEN NoSummary
       ELSE IF active_df = <<>> THEN NoSummary
       ELSE summary_dict(region, zone_name, active_df, total_members, rate)

\* a call of app_final.py's summary on the table held in `input`
summary_call ==
  /\ input.kind = "final"
  /\ result = <<>>
  /\ result' = <<calculate_zone_summary(input.zone_df, input.month,
                                        input.zone, input.region)>>
  /\ UNCHANGED <<input, app_vars>>

\* a call of app_v2.py's summary; line 88 assigns the parsed dates into the
\* caller's table
summary_call_v2 ==
  /\ input.kind = "v2"
  /\ result = <<>>
  /\ result' = <<calculate_zone_summary_v2(input.zone_df, input.month,
                                           input.zone, input.region)>>
  /\ input' = [input EXCEPT !.zone_df =
                 IF @ = <<>> THEN @ ELSE parse_dates(@)]
  /\ UNCHANGED app_vars

\* ---- the tables the summaries are applied to

\* rows per table
MaxRows == 2

SummaryNames == {"kim", "lee"}

\* kim leads the zone, lee is a youth member (setup_initial_data.py)
RoleOfName == [kim |-> "leader", lee |-> "youth"]

\* date cells of a weekly sheet: two Sundays of one month, one of the
\* next, and a cell that is not a date
DateCells == {<<2024, 11, 3>>, <<2024, 11, 10>>, <<2024, 12, 1>>,
              <<2024, 13, 1>>}

\* the periods offered for the weekly sheets ("2024-nyeon 11-wol")
YearMonths == {<<2024, 11>>, <<2024, 12>>}

RowsFinal ==
  {[date |-> d, name |-> n, role |-> RoleOfName[n], status |-> st,
    flags |-> f] :
     d \in Months, n \in SummaryNames, st \in StatusOptions, f \in FlagChoices}

RowsV2 ==
  {[date |-> d, name |-> n, role |-> RoleOfName[n], status |-> st,
    flags |-> f] :
     d \in DateCells, n \in SummaryNames, st \in StatusOptions,
     f \in FlagChoices}

TablesOf(Rows) == UNION {[1..n -> Rows] : n \in 0..MaxRows}

SummaryInputs ==
  {[kind |-> "final", zone_df |-> t, month |-> m, zone |-> z,
    region |-> zone_region_map[z]] :
     t \in TablesOf(RowsFinal), m \in Months, z \in Zones}

SummaryInputsV2 ==
  {[kind |-> "v2", zone_df |-> t, month |-> m, zone |-> z,
    region |-> zone_region_map[z]] :
     t \in TablesOf(RowsV2), m \in YearMonths, z \in Zones}

InitSummary ==
  /\ AppInit
  /\ \/ input \in SummaryInputs
     \/ input \in SummaryInputsV2
  /\ result = <<>>

NextSummary ==
  \/ summary_call
  \/ summary_call_v2

SpecSummary == InitSummary /\ [][NextSummary]_vars

(* ------------------------- composite score ---------------------------- *)

\* A weight is held in sixths of a percentage point, so that the slider's
\* default 100 / len(indicators) and its steps of 5 are both whole numbers;
\* a score is held in tenths.  Floating point is modelled exactly here too:
\* the result is the decimal nearest to the exact sum, and where the exact
\* sum lies on a half of a tenth the model takes round()'s tie rule.
WeightUnit == NumIndicators

\* value=default_weight of the sliders
default_weight == (100 * WeightUnit) \div NumIndicators

\* step=5.0 of the sliders
SliderStep == 5 * WeightUnit

\* the loop with the last indicator left out
RECURSIVE score_loop_short(_, _, _, _)
score_loop_short(inds, row, weights, score) ==
  IF Len(inds) <= 1 THEN score
  ELSE LET ind == Head(inds)
       IN score_loop_short(Tail(inds), row, weights,
            IF ind \in DOMAIN row /\ ind \in DOMAIN weights
              THEN score + row[ind] * weights[ind]
              ELSE score)

\* lines 378-381: score += row[ind] * (weights[ind] / 100) for each
\* indicator present in both; the running sum is kept times 100 * WeightUnit
RECURSIVE score_loop(_, _, _, _)
score_loop(inds, row, weights, score) ==
  IF inds = <<>> THEN score
  ELSE LET ind == Head(inds)
       IN score_loop(Tail(inds), row, weights,
            IF ind \in DOMAIN row /\ ind \in DOMAIN weights
              THEN score + row[ind] * weights[ind]
              ELSE score)

\* the score with the weights scaled to a sum of 100 before use
calculate_comprehensive_score_normalized(row, weights) ==
  LET total == weights[1] + weights[2] + weights[3] + weights[4]
               + weights[5] + weights[6]
  IN IF total = 0 THEN 0
     ELSE round_half_even(100 * WeightUnit
                            * score_loop(indicators, row, weights, 0),
                          10 * WeightUnit * total)

\* calculate_comprehensive_score(row, weights): round(score, 1), in tenths;
\* row holds whole-number rates
calculate_comprehensive_score(row, weights) ==
  round_half_even(score_loop(indicators, row, weights, 0), 10 * WeightUnit)

\* weights.get(ind, 0) of app.py
weights_get(weights, ind) ==
  IF ind \in DOMAIN weights THEN weights[ind] ELSE 0

RECURSIVE zone_score_loop(_, _, _, _)
\* app.py lines 210-213: the same sum over rates kept to one decimal
zone_score_loop(inds, rates, weights, score) ==
  IF inds = <<>> THEN score
  ELSE zone_score_loop(Tail(inds), rates, weights,
         score + rates[Head(inds)] * weights_get(weights, Head(inds)))

\* app.py lines 209-215 of calculate_zone_scores for one zone: rates are in
\* tenths, the score .round(1) is in tenths
zone_score(rates, weights) ==
  round_half_even(zone_score_loop(indicators, rates, weights, 0),
                  100 * WeightUnit)

\* repeated calls made on one pair of arguments
MaxCalls == 2

\* one call of calculate_comprehensive_score; the body only reads row and
\* weights, so both objects are as they were when it returns
score_call ==
  /\ input.kind = "score"
  /\ Len(result) < MaxCalls
  /\ result' = Append(result,
                 [score |-> calculate_comprehensive_score(input.row,
                                                          input.weights),
                  row |-> input.row, weights |-> input.weights])
  /\ UNCHANGED <<input, app_vars>>

\* the scoring of one zone in app.py's calculate_zone_scores
zone_score_call ==
  /\ input.kind = "app"
  /\ Len(result) < MaxCalls
  /\ result' = Append(result,
                 [score |-> zone_score(input.row, input.weights),
                  row |-> input.row, weights |-> input.weights])
  /\ UNCHANGED <<input, app_vars>>

\* rates of a summary (whole numbers)
RateChoices == {0, 33, 50, 100}

\* rates of app.py (tenths: 0, 33.3, 100)
RateChoicesTenths == {0, 333, 1000}

\* weight dictionaries the sidebar can hold: untouched sliders, sliders set
\* to round values adding up to 100, to more than 100, and a mix
WeightChoices ==
  {[k \in 1..NumIndicators |-> default_weight],
   <<4 * SliderStep, 4 * SliderStep, 4 * SliderStep, 4 * SliderStep,
     2 * SliderStep, 2 * SliderStep>>,
   <<SliderStep, 0, 0, 0, 0, SliderStep>>,
   [k \in 1..NumIndicators |-> 20 * SliderStep],
   <<default_weight, SliderStep, default_weight, 3 * SliderStep,
     default_weight, 7 * SliderStep>>}

InitScore ==
  /\ AppInit
  /\ \/ \E row \in [1..NumIndicators -> RateChoices], w \in WeightChoices :
          input = [kind |-> "score", row |-> row, weights |-> w]
     \/ \E row \in [1..NumIndicators -> RateChoicesTenths],
           w \in WeightChoices :
          input = [kind |-> "app", row |-> row, weights |-> w]
  /\ result = <<>>

NextScore ==
  \/ score_call
  \/ zone_score_call

SpecScore == InitScore /\ [][NextScore]_vars

(* ------------------------------ scoreboard ---------------------------- *)

\* the zones of the scoreboard's zone_region_map that are kept here; two
\* of them share a region
BoardZones == {"zone1", "zone2", "zone5"}

board_region_map == [zone1 |-> "Dowon", zone2 |-> "Dowon", zone5 |-> "Saesin"]

\* zone_region_map.get(zone, 'other')
region_get(zone) ==
  IF zone \in DOMAIN board_region_map THEN board_region_map[zone] ELSE "other"

\* lines 455-466: one summary per zone of all_zones, in that order; empty
\* tables and None summaries are skipped (tables[zone] is what
\* load_zone_data(client, zone) returns)
RECURSIVE summary_loop(_, _, _, _)
summary_loop(zones, tables, selected_month, summary_list) ==
  IF zones = <<>> THEN summary_list
  ELSE LET zone == Head(zones)
           zone_df == tables[zone]
           summary == IF zone_df = <<>> THEN NoSummary
                      ELSE calculate_zone_summary(zone_df, selected_month,
                                                  zone, region_get(zone))
       IN summary_loop(Tail(zones), tables, selected_month,
            IF summary.found THEN Append(summary_list, summary)
            ELSE summary_list)

\* render_sidebar lines 416-420: the message under the sliders;
\* abs(total_weight - 100) > 0.1 with the weights in units of 1/WeightUnit
RECURSIVE total_weight(_)
total_weight(weights) ==
  IF weights = <<>> THEN 0 ELSE Head(weights) + total_weight(Tail(weights))

render_sidebar(weights) ==
  LET diff == total_weight(weights) - 100 * WeightUnit
      abs == IF diff < 0 THEN -diff ELSE diff
  IN IF 10 * abs > WeightUnit THEN "warning" ELSE "success"

\* lines 473-479: the frame of summaries with the composite score column
score_rows(summary_list, weights) ==
  [i \in 1..Len(summary_list) |->
     [summary |-> summary_list[i],
      score |-> calculate_comprehensive_score(summary_list[i].rates, weights)]]

Perms(n) == {p \in [1..n -> 1..n] : \A i, j \in 1..n : i # j => p[i] # p[j]}

\* summary_df.sort_values(score column, ascending=False) with the default
\* kind='quicksort': the rows in non-increasing score order.  The order of
\* rows of equal score is not defined by that sort, so every such order is
\* an outcome.  (The sort of the zone sheets above is by month only and the
\* order inside a month is read by no statement, so it is kept stable.)
sort_by_score(df) ==
  {[i \in 1..Len(df) |-> df[p[i]]] :
     p \in {q \in Perms(Len(df)) :
              \A i \in 1..(Len(df) - 1) : df[q[i]].score >= df[q[i + 1]].score}}

\* summary_df[rank column] = range(1, len(summary_df) + 1)
assign_ranks(df) ==
  [i \in 1..Len(df) |->
     [summary |-> df[i].summary, score |-> df[i].score, rank |-> i]]

\* region_df[column].sum() over the zone summaries of one region
RECURSIVE rate_sum(_, _)
rate_sum(region_df, k) ==
  IF region_df = <<>> THEN 0
  ELSE (IF k = 0 THEN Head(region_df).summary.total
        ELSE Head(region_df).summary.rates[k])
       + rate_sum(Tail(region_df), k)

\* lines 488-521: the total row of one region: the head counts added up and
\* int(region_df[column].mean()) for each rate
total_row(summary_df, region) ==
  LET InRegion(r) == r.summary.jiyeok = region
      region_df == SelectSeq(summary_df, InRegion)
  IN [jiyeok |-> region, total |-> rate_sum(region_df, 0),
      rates |-> [k \in 1..NumIndicators |->
                   rate_sum(region_df, k) \div Len(region_df)]]

\* the total rows of the regions on the scoreboard
total_rows(summary_df) ==
  LET regions == unique([i \in 1..Len(summary_df) |->
                           summary_df[i].summary.jiyeok])
  IN [i \in 1..Len(regions) |-> total_row(summary_df, regions[i])]

\* app_v2.py render_monthly_summary_table, lines 262-273, on a frame of the
\* same columns: groupby(region) mean of the rates, .round(1), in tenths
region_summary(summary_df) ==
  LET regions == unique([i \in 1..Len(summary_df) |->
                           summary_df[i].summary.jiyeok])
      Of(region) ==
        LET InRegion(r) == r.summary.jiyeok = region
        IN SelectSeq(summary_df, InRegion)
  IN [i \in 1..Len(regions) |->
        [jiyeok |-> regions[i], total |-> rate_sum(Of(regions[i]), 0),
         rates |-> [k \in 1..NumIndicators |->
                      round_half_even(10 * rate_sum(Of(regions[i]), k),
                                      Len(Of(regions[i])))]]]

\* render_scoreboard_tab from the zone loop to the ranks and the regions'
\* total rows (with the region table app_v2.py shows for the same frame)
render_scoreboard_tab ==
  /\ input.kind = "board"
  /\ result = <<>>
  /\ LET summary_list == summary_loop(input.all_zones, input.tables,
                                      input.month, <<>>)
         summary_df == score_rows(summary_list, input.weights)
     IN \E sorted \in sort_by_score(summary_df) :
          result' = <<[board |-> assign_ranks(sorted),
                       totals |-> total_rows(sorted),
                       region_summary |-> region_summary(sorted),
                       sidebar |-> render_sidebar(input.weights)]>>
  /\ UNCHANGED <<input, app_vars>>

\* lines 482-483 applied to a frame that is already ranked
rank_again ==
  /\ input.kind = "board"
  /\ Len(result) = 1
  /\ result[1].board # <<>>
  /\ \E sorted \in sort_by_score(result[1].board) :
       result' = Append(result, [board |-> assign_ranks(sorted),
                                 totals |-> total_rows(sorted),
                                 region_summary |-> region_summary(sorted)])
  /\ UNCHANGED <<input, app_vars>>

\* ---- the scoreboard's inputs

SomeFlags == <<1, 1, 0, 0, 0, 1>>

BoardRow(d, n, st, f) ==
  [date |-> d, name |-> n, role |-> RoleOfName[n], status |-> st, flags |-> f]

\* zone tables as load_zone_data returns them: none, one of another month
\* only, one without an active row, and active rows with different rates
\* and head counts
BoardTables ==
  {<<>>,
   <<BoardRow(12, "kim", "active", SomeFlags)>>,
   <<BoardRow(11, "kim", "excluded", SomeFlags)>>,
   <<BoardRow(11, "kim", "active", SomeFlags)>>,
   <<BoardRow(11, "kim", "active", ZeroFlags)>>,
   <<BoardRow(11, "kim", "active", SomeFlags),
     BoardRow(11, "lee", "active", ZeroFlags)>>,
   <<BoardRow(12, "kim", "active", ZeroFlags),
     BoardRow(11, "kim", "active", SomeFlags),
     BoardRow(11, "lee", "excluded", SomeFlags)>>}

\* master_df[zone column].dropna().unique(): the zones in roster order
ZoneOrders ==
  {o \in [1..Cardinality(BoardZones) -> BoardZones] :
     \A i, j \in DOMAIN o : i # j => o[i] # o[j]}

BoardWeights ==
  {[k \in 1..NumIndicators |-> default_weight],
   <<10 * SliderStep, 0, 0, 0, 0, 10 * SliderStep>>,
   <<8 * SliderStep, 0, 0, 0, 0, 4 * SliderStep>>}

InitBoard ==
  /\ AppInit
  /\ \E all_zones \in ZoneOrders, tables \in [BoardZones -> BoardTables],
        month \in Months, weights \in BoardWeights :
       input = [kind |-> "board", all_zones |-> all_zones, tables |-> tables,
                month |-> month, weights |-> weights]
  /\ result = <<>>

NextBoard ==
  \/ render_scoreboard_tab
  \/ rank_again

SpecBoard == InitBoard /\ [][NextBoard]_vars

(* --------------------- the single-sheet dashboard (app.py) ------------ *)

\* app.py keeps every activity row in one sheet; a row carries its region
\* and zone, and load_data has parsed its date

\* filter_data(df, month, region, zone); month is <<year, month>>, a NaT
\* date formats to no month label
filter_data(df, month, region, zone) ==
  LET Passes(r) ==
        /\ r.date # NaT /\ r.date[1] = month[1] /\ r.date[2] = month[2]
        /\ (region # "all" => r.region = region)
        /\ (zone # "all" => r.zone = zone)
  IN SelectSeq(df, Passes)

\* lines 199-207 and 221-223 for one zone: head count, sums, rates to one
\* decimal (held in tenths), and the region of the zone's first row
zone_stats(active_df, zone) ==
  LET OfZone(r) == r.zone = zone
      rows == SelectSeq(active_df, OfZone)
      count == Len(rows)
  IN [guyeok |-> zone, jiyeok |-> rows[1].region, total |-> count,
      sums |-> [k \in 1..NumIndicators |-> column_sum(rows, k)],
      rates |-> [k \in 1..NumIndicators |->
                   round_half_even(1000 * column_sum(rows, k), count)]]

\* the grouped frame with the score column, before the sort; the sort
\* below makes the outcome independent of the order of the groups
zone_score_rows(active_df, weights) ==
  LET zones == unique(Column(active_df, "zone"))
  IN [i \in 1..Len(zones) |->
        [summary |-> zone_stats(active_df, zones[i]),
         score |-> zone_score(zone_stats(active_df, zones[i]).rates,
                              weights)]]

\* calculate_zone_scores(df, weights): the ranked frames it can return
calculate_zone_scores(df, weights) ==
  LET IsActive(r) == r.status = "active"
      active_df == SelectSeq(df, IsActive)
  IN IF df = <<>> \/ active_df = <<>> THEN {<<>>}
     ELSE {assign_ranks(sorted) :
             sorted \in sort_by_score(zone_score_rows(active_df, weights))}

\* render_region_comparison, lines 402-418: per region the head count and
\* the sums over the region's active rows; the rate shown is
\* sums[k] / total * 100, not rounded
region_stats(df) ==
  LET IsActive(r) == r.status = "active"
      active_df == SelectSeq(df, IsActive)
      regions == unique(Column(active_df, "region"))
      Of(region) ==
        LET InRegion(r) == r.region = region
        IN SelectSeq(active_df, InRegion)
  IN [i \in 1..Len(regions) |->
        [jiyeok |-> regions[i], total |-> Len(Of(regions[i])),
         sums |-> [k \in 1..NumIndicators |-> column_sum(Of(regions[i]), k)]]]

\* the text shown when a member has no attended row ('no record')
NoRecord == <<0, 0, 0>>

\* the order of two parsed dates
date_key(d) == (d[1] * 12 + d[2]) * 31 + d[3]

\* lines 515-520: the rows of df with this name and overall attendance 1,
\* sorted by date descending; the first one's date, or 'no record'
last_attendance(df, name) ==
  LET Attended(r) == r.name = name /\ r.flags[1] = 1
      person_history == SelectSeq(df, Attended)
  IN IF person_history = <<>> THEN NoRecord
     ELSE LET top == MaxOf({date_key(person_history[i].date) :
                              i \in 1..Len(person_history)})
          IN (CHOOSE r \in Range(person_history) : date_key(r.date) = top).date

\* render_missing_sheep(df): one entry per active row of df with overall
\* attendance 0, the history searched in the same df
render_missing_sheep(df) ==
  LET Missing(r) == r.status = "active" /\ r.flags[1] = 0
      missing == SelectSeq(df, Missing)
  IN [i \in 1..Len(missing) |->
        [name |-> missing[i].name, region |-> missing[i].region,
         zone |-> missing[i].zone, role |-> missing[i].role,
         last |-> last_attendance(df, missing[i].name)]]

\* main of app.py, lines 653-690: the filter, the leaderboard, the region
\* comparison and the missing-members list, all on the filtered rows
main_dashboard ==
  /\ input.kind = "flat"
  /\ result = <<>>
  /\ LET filtered_df == filter_data(input.df, input.month, input.region,
                                    input.zone)
     IN \E zone_scores \in calculate_zone_scores(filtered_df, input.weights) :
          result' = <<[filtered |-> filtered_df, board |-> zone_scores,
                       regions |-> region_stats(filtered_df),
                       missing |-> render_missing_sheep(filtered_df)]>>
  /\ UNCHANGED <<input, app_vars>>

\* ---- the sheets the dashboard is applied to

\* rows of the single sheet
MaxFlatRows == 3

FlatZones == {"zone1", "zone2"}

\* the dates of three weekly entries, two in one month
FlatDates == {<<2024, 11, 3>>, <<2024, 11, 10>>, <<2024, 12, 1>>}

FlatRows ==
  {[date |-> d, name |-> n, region |-> board_region_map[z], zone |-> z,
    role |-> RoleOfName[n], status |-> st, flags |-> f] :
     d \in FlatDates, n \in SummaryNames, z \in FlatZones,
     st \in StatusOptions, f \in FlagChoices}

\* the sidebar's region and zone selections
FilterChoices == {<<"all", "all">>, <<"all", "zone1">>}

InitFlat ==
  /\ AppInit
  /\ \E n \in 0..MaxFlatRows :
       \E df \in [1..n -> FlatRows], month \in YearMonths,
          f \in FilterChoices :
         input = [kind |-> "flat", df |-> df, month |-> month,
                  region |-> f[1], zone |-> f[2],
                  weights |-> [k \in 1..NumIndicators |-> default_weight]]
  /\ result = <<>>

NextFlat ==
  \/ main_dashboard

\* all the aggregations: the zone summaries, the scoreboard and the
\* single-sheet dashboard
InitAggregates ==
  \/ InitSummary
  \/ InitBoard
  \/ InitFlat

NextAggregates ==
  \/ NextSummary
  \/ NextBoard
  \/ NextFlat

SpecAggregates == InitAggregates /\ [][NextAggregates]_vars

(* ----------------------- sheets that do not exist --------------------- *)

\* The loaders are followed here inside their try blocks, against a
\* spreadsheet (book) in which a sheet may be absent: titles are the
\* sheets that exist, failing the sheets for which the API call raises
\* another exception than WorksheetNotFound (quota, network).

\* spreadsheet.worksheet(title)
worksheet(book, title) ==
  IF title \in book.failing THEN "api_error"
  ELSE IF title \notin book.titles THEN "not_found"
  ELSE "ok"

\* load_master_db when nothing is cached, lines 51-66; shown is the
\* message the function puts on the page
read_master_db(book) ==
  LET w == worksheet(book, "Record_DB")
  IN CASE w = "not_found" ->
            [columns |-> RosterColumns, rows |-> <<>>, shown |-> "warning"]
       [] w = "api_error" ->
            [columns |-> {}, rows |-> <<>>, shown |-> "error"]
       [] OTHER ->
            [columns |-> RosterColumns, rows |-> book.roster, shown |-> "none"]

\* load_zone_data when nothing is cached, lines 71-90
read_zone_data(book, zone_name) ==
  LET w == worksheet(book, zone_name)
      HasDate(r) == r.date # NoDate
  IN CASE w = "not_found" -> [rows |-> <<>>, shown |-> "none"]
       [] w = "api_error" -> [rows |-> <<>>, shown |-> "error"]
       [] OTHER -> [rows |-> SelectSeq(book.sheets[zone_name], HasDate),
                    shown |-> "none"]

\* the loop of get_available_months in which a missing sheet ends the
\* listing, as the outer except of lines 138-140 would
RECURSIVE months_loop_stop_at_missing(_, _, _)
months_loop_stop_at_missing(book, all_zones, all_dates) ==
  IF all_zones = <<>> THEN all_dates
  ELSE LET zone == Head(all_zones)
           w == worksheet(book, zone)
           HasMonth(r) == r.date # NoDate
       IN IF zone = ""
          THEN months_loop_stop_at_missing(book, Tail(all_zones), all_dates)
          ELSE IF w = "not_found" THEN {}
          ELSE IF w = "api_error"
          THEN months_loop_stop_at_missing(book, Tail(all_zones), all_dates)
          ELSE months_loop_stop_at_missing(book, Tail(all_zones),
                 all_dates
                 \cup Range(Column(SelectSeq(book.sheets[zone], HasMonth),
                                   "date")))

\* lines 102-129: the loop over all_zones; a zone whose sheet is missing
\* or whose read raises is passed over
RECURSIVE months_loop(_, _, _)
months_loop(book, all_zones, all_dates) ==
  IF all_zones = <<>> THEN all_dates
  ELSE LET zone == Head(all_zones)
           HasMonth(r) == r.date # NoDate
       IN IF zone = "" \/ worksheet(book, zone) # "ok"
          THEN months_loop(book, Tail(all_zones), all_dates)
          ELSE months_loop(book, Tail(all_zones),
                 all_dates
                 \cup Range(Column(SelectSeq(book.sheets[zone], HasMonth),
                                   "date")))

\* sorted(list(all_dates), key=month number, reverse=True)
RECURSIVE sorted_months(_)
sorted_months(all_dates) ==
  IF all_dates = {} THEN <<>>
  ELSE <<MaxOf(all_dates)>> \o sorted_months(all_dates \ {MaxOf(all_dates)})

\* get_available_months(client, all_zones), lines 92-140
get_available_months(book, all_zones) ==
  sorted_months(months_loop(book, all_zones, {}))

\* the function fn has been called on the book
Called(fn) == \E i \in 1..Len(result) : result[i].fn = fn

load_master_db_call ==
  /\ input.kind = "book"
  /\ ~Called("load_master_db")
  /\ result' = Append(result, [fn |-> "load_master_db",
                               out |-> read_master_db(input)])
  /\ UNCHANGED <<input, app_vars>>

load_zone_data_call ==
  /\ input.kind = "book"
  /\ ~Called("load_zone_data")
  /\ result' = Append(result, [fn |-> "load_zone_data",
                               out |-> read_zone_data(input, input.zone)])
  /\ UNCHANGED <<input, app_vars>>

get_available_months_call ==
  /\ input.kind = "book"
  /\ ~Called("get_available_months")
  /\ result' = Append(result,
                 [fn |-> "get_available_months",
                  out |-> get_available_months(input, input.all_zones)])
  /\ UNCHANGED <<input, app_vars>>

\* ---- the spreadsheets the loaders are applied to

BookTitles == {"Record_DB"} \cup Zones

SheetRow(d, n) ==
  [date |-> d, name |-> n, role |-> "youth", status |-> "active",
   flags |-> ZeroFlags]

\* a sheet with the header row alone, with one month, and with two months
\* and a row whose date cell is empty
SheetChoices ==
  {<<>>,
   <<SheetRow(11, "kim")>>,
   <<SheetRow(12, "kim"), SheetRow(11, "kim"), SheetRow(NoDate, "lee")>>}

\* all_zones as the roster gives it; "" is an empty zone cell
ZoneLists == {<<"zone1", "zone5">>, <<"zone5", "", "zone1">>}

\* a sheet that does not exist has no rows
Books ==
  {b \in [kind : {"book"}, titles : SUBSET BookTitles,
          failing : {{}} \cup {{t} : t \in BookTitles},
          roster : {<<>>, InitialRoster}, sheets : [Zones -> SheetChoices],
          all_zones : ZoneLists, zone : Zones] :
     /\ "Record_DB" \notin b.titles => b.roster = <<>>
     /\ \A z \in Zones : z \notin b.titles => b.sheets[z] = <<>>}

InitBook ==
  /\ AppInit
  /\ input \in Books
  /\ result = <<>>

NextBook ==
  \/ load_master_db_call
  \/ load_zone_data_call
  \/ get_available_months_call

SpecBook == InitBook /\ [][NextBook]_vars

(* ------------------------ cells as they are read --------------------- *)

\* worksheet.get_all_records() hands every cell over as gspread read it:
\* an int, a float (n counts tenths), '' for an empty cell, or the text of
\* the cell; float('inf') is what gspread makes of the text "inf"
IntCell(n) == [kind |-> "int", n |-> n]

RawCells ==
  {IntCell(0), IntCell(1), [kind |-> "blank", n |-> 0],
   [kind |-> "text", n |-> 0], [kind |-> "float", n |-> 15],
   [kind |-> "inf", n |-> 0]}

\* pd.to_numeric(value, errors='coerce'): what cannot be parsed is NaN
to_numeric(cell) ==
  IF cell.kind \in {"blank", "text"} THEN [kind |-> "nan", n |-> 0] ELSE cell

\* .fillna(0)
fillna(cell) == IF cell.kind = "nan" THEN [kind |-> "float", n |-> 0] ELSE cell

\* .astype(int) on one value: a float is cut towards zero; the caller
\* looks for the values on which the cast raises
astype_int(cell) ==
  IF cell.kind = "float"
  THEN IntCell(IF cell.n >= 0 THEN cell.n \div 10 ELSE -((-cell.n) \div 10))
  ELSE cell

\* the cast of a column raises when a value is not finite
CastRaises(df) ==
  \E i \in 1..Len(df), k \in 1..NumIndicators :
    fillna(to_numeric(df[i].flags[k])).kind = "inf"

\* app.py load_data when nothing is cached, lines 70-90
load_data(data) ==
  IF data = <<>> \/ CastRaises(data)
  THEN [ok |-> FALSE, df |-> <<>>, shown |-> "error"]
  ELSE [ok |-> TRUE,
        df |-> [i \in 1..Len(data) |->
                  [data[i] EXCEPT
                     !.date = to_datetime(@),
                     !.flags = [k \in 1..NumIndicators |->
                                  astype_int(fillna(to_numeric(@[k])))]]],
        shown |-> "none"]

\* app_final.py load_zone_data when nothing is cached and the sheet
\* exists, lines 75-85: the rows with a date, every other cell as read
load_zone_cells(data) ==
  LET HasDate(r) == r.date # NoDate
  IN [ok |-> TRUE, df |-> SelectSeq(data, HasDate), shown |-> "none"]

load_data_call ==
  /\ input.kind = "raw_flat"
  /\ result = <<>>
  /\ result' = <<load_data(input.data)>>
  /\ UNCHANGED <<input, app_vars>>

load_zone_cells_call ==
  /\ input.kind = "raw_zone"
  /\ result = <<>>
  /\ result' = <<load_zone_cells(input.data)>>
  /\ UNCHANGED <<input, app_vars>>

\* ---- the sheets the loaders are applied to

MaxRawRows == 2

\* the six indicator cells of a row: all 0, or one cell of each kind
\* followed by five 1s
RawFlagChoices ==
  {[k \in 1..NumIndicators |-> IntCell(0)]}
  \cup {[k \in 1..NumIndicators |-> IF k = 1 THEN c ELSE IntCell(1)] :
          c \in RawCells}

RawFlatRows ==
  {[date |-> d, name |-> "kim", status |-> "active", flags |-> f] :
     d \in {<<2024, 11, 3>>, <<2024, 13, 1>>}, f \in RawFlagChoices}

RawZoneRows ==
  {[date |-> d, name |-> "kim", status |-> "active", flags |-> f] :
     d \in {11, NoDate}, f \in RawFlagChoices}

InitRaw ==
  /\ AppInit
  /\ \/ \E n \in 0..MaxRawRows : \E data \in [1..n -> RawFlatRows] :
          input = [kind |-> "raw_flat", data |-> data]
     \/ \E n \in 0..MaxRawRows : \E data \in [1..n -> RawZoneRows] :
          input = [kind |-> "raw_zone", data |-> data]
  /\ result = <<>>

NextRaw ==
  \/ load_data_call
  \/ load_zone_cells_call

SpecRaw == InitRaw /\ [][NextRaw]_vars

(* ------------------------ update_data_to_gsheet ----------------------- *)

\* A date cell of the single sheet is the text <<year, month, day, form>>:
\* form 0 is the zero-padded "2024-11-03", form 1 is "2024-11-3", which
\* load_data parses to the same date.  NoText is what strftime gives NaT.
NoText == <<0, 0, 0, 0>>

\* df['date'].dt.strftime('%Y-%m-%d'), line 100
strftime(d) == IF d = NaT THEN NoText ELSE <<d[1], d[2], d[3], 0>>

\* lines 109-114: the stored row has the date, name, region and zone of
\* the edited row
key_matches(stored, row) ==
  /\ stored.date = row.date
  /\ stored.name = row.name
  /\ stored.region = row.region
  /\ stored.zone = row.zone

\* the update that overwrites every stored row of the key
update_all_matches(all_df, row) ==
  [i \in 1..Len(all_df) |->
     IF key_matches(all_df[i], row) THEN row ELSE all_df[i]]

\* lines 116-118: if mask.any(), the first row of the mask is overwritten
update_first_match(all_df, row) ==
  IF \E i \in 1..Len(all_df) : key_matches(all_df[i], row)
  THEN LET row_idx == CHOOSE i \in 1..Len(all_df) :
                        /\ key_matches(all_df[i], row)
                        /\ \A j \in 1..(i - 1) : ~key_matches(all_df[j], row)
       IN [all_df EXCEPT ![row_idx] = row]
  ELSE all_df

\* lines 107-118: the loop over the edited rows
RECURSIVE update_loop(_, _)
update_loop(all_df, df_to_update) ==
  IF df_to_update = <<>> THEN all_df
  ELSE update_loop(update_first_match(all_df, Head(df_to_update)),
                   Tail(df_to_update))

\* update_data_to_gsheet(client, df, ...), lines 94-127, on a sheet that
\* holds the rows all_data.  A sheet without rows gives a frame without
\* columns: the first mask raises KeyError, the except branch returns
\* False and the sheet is not touched
update_data_to_gsheet(all_data, df) ==
  LET df_to_update == [i \in 1..Len(df) |->
                         [df[i] EXCEPT !.date = strftime(@)]]
  IN IF all_data = <<>> /\ df_to_update # <<>>
     THEN [ret |-> FALSE, rows |-> all_data, shown |-> "error"]
     ELSE [ret |-> TRUE, rows |-> update_loop(all_data, df_to_update),
           shown |-> "none"]

update_call ==
  /\ input.kind = "update"
  /\ result = <<>>
  /\ result' = <<update_data_to_gsheet(input.stored, input.df)>>
  /\ UNCHANGED <<input, app_vars>>

\* ---- the sheets and the edited frames the function is applied to

MaxStored == 2

MaxEdited == 2

StoredRows ==
  {[date |-> d, name |-> n, region |-> "Dowon", zone |-> "zone1",
    role |-> "youth", status |-> "active", flags |-> ZeroFlags] :
     d \in {<<2024, 11, 3, 0>>, <<2024, 11, 3, 1>>, <<2024, 11, 10, 0>>},
     n \in {"kim", "lee"}}

\* edited rows: the date as pd.to_datetime (line 620) made it
EditedRows ==
  {[date |-> d, name |-> n, region |-> "Dowon", zone |-> "zone1",
    role |-> "youth", status |-> e[1], flags |-> e[2]] :
     d \in {<<2024, 11, 3>>, <<2024, 11, 10>>, NaT}, n \in {"kim", "lee"},
     e \in {<<"active", <<1, 1, 0, 0, 0, 1>> >>, <<"excluded", ZeroFlags>>}}

InitUpdate ==
  /\ AppInit
  /\ \E n \in 0..MaxStored, m \in 0..MaxEdited :
       \E stored \in [1..n -> StoredRows], df \in [1..m -> EditedRows] :
         input = [kind |-> "update", stored |-> stored, df |-> df]
  /\ result = <<>>

NextUpdate ==
  \/ update_call

SpecUpdate == InitUpdate /\ [][NextUpdate]_vars

(* ------------------------------ claims -------------------------------- *)

\* rows of df for one (period, member name)
RowsOf(df, date, name) ==
  LET Same(r) == r.date = date /\ r.name = name
  IN SelectSeq(df, Same)

\* the active roster rows of a zone
ActiveOfZone(master_df, zone) ==
  LET Wanted(m) == m.zone = zone /\ m.status = "active"
  IN SelectSeq(master_df, Wanted)

\* the active roster rows of a zone that pass the region filter themselves
Provisioned(master_df, region_filter, zone) ==
  LET Wanted(m) ==
        /\ m.zone = zone
        /\ m.status = "active"
        /\ region_filter = "all" \/ m.region = region_filter
  IN SelectSeq(master_df, Wanted)

\* C1: running create_monthly_records twice for the same period, region
\* filter and roster leaves, in every zone table it wrote, exactly one row
\* for the period per active roster member of the zone.
C1_ProvisionTwiceKeepsOneRowPerMember ==
  (last.op \in {"generate", "create"} /\ last.again /\ last.failed = {})
    => \A z \in last.saved :
         LET members == Provisioned(last.master, last.region, z)
         IN \A i \in 1..Len(members) :
              Len(RowsOf(sheets[z], last.month, members[i].name)) = 1

\* the rows of a member in a table that belong to the member's most
\* recent period there
MostRecentOf(df, name) ==
  LET Mine(r) == r.name = name
      mine == SelectSeq(df, Mine)
  IN IF mine = <<>> THEN <<>> ELSE RowsOf(df, latest_date_of(mine), name)

ActiveRowsOf(df, date, name) ==
  LET Same(r) == r.date = date /\ r.name = name /\ r.status = "active"
  IN SelectSeq(df, Same)

\* a sync_member_to_zones call that moved a member between two different
\* zones, read both tables as they are on the backend, and had every
\* backend write completed
MovedBetweenZones ==
  /\ last.op = "sync"
  /\ last.ret
  /\ last.old_zone # ""
  /\ last.old_zone # last.zone
  /\ last.failed = {}
  /\ last.loaded[last.old_zone] = last.pre[last.old_zone]
  /\ last.loaded[last.zone] = last.pre[last.zone]

\* C2: after sync_member_to_zones moved a member from zone A to a different
\* zone B, the member's most recent record in A's table is excluded, and
\* B's table holds exactly one active record for the member in B's most
\* recent period.
C2_MoveExcludesOldAndAddsOneActive ==
  MovedBetweenZones =>
    /\ \A r \in Range(MostRecentOf(sheets[last.old_zone], last.member)) :
         r.status = "excluded"
    /\ sheets[last.zone] # <<>> =>
         Len(ActiveRowsOf(sheets[last.zone],
                          latest_date_of(sheets[last.zone]),
                          last.member)) = 1

\* the dates that occur in a table
DatesOf(df) == {df[i].date : i \in 1..Len(df)}

\* the role the roster used by the last call gives a member
RoleIn(master_df, name) ==
  LET IsMember(m) == m.name = name
  IN SelectSeq(master_df, IsMember)[1].role

\* C3: sync_member_to_zones appends one fresh zero-flag row to the new
\* zone's table, and only when the table as loaded has no row for (most
\* recent period, member); otherwise the new zone's table is left as it
\* is; and a second call with the same arguments does not give the member
\* a second row in the new zone's most recent period.
C3_SyncTwiceAddsNoDuplicate ==
  last.op = "sync" =>
    LET B == last.zone
        m == last.member
        loaded == last.loaded[B]
    IN /\ B \in last.saved =>
            /\ loaded # <<>>
            /\ RowsOf(loaded, latest_date_of(loaded), m) = <<>>
            /\ sheets[B] =
                 Append(loaded,
                        [date |-> latest_date_of(loaded), name |-> m,
                         role |-> RoleIn(last.master, m),
                         status |-> "active", flags |-> ZeroFlags])
       /\ (B \notin last.saved /\ B \notin last.failed) =>
            sheets[B] = last.pre[B]
       /\ ( /\ last.again
            /\ sheets[B] # <<>>
            /\ \A d \in DatesOf(last.pre[B]) :
                 Len(RowsOf(last.pre[B], d, m)) <= 1 ) =>
            Len(RowsOf(sheets[B], latest_date_of(sheets[B]), m)) <= 1

\* C3 witness: the second of two equal calls is done for a member whose
\* roster zone is another one, and the new zone's most recent period
\* holds the one row the first call appended.
C3_Witness ==
  /\ last.op = "sync"
  /\ last.again
  /\ last.old_zone \notin {"", last.zone}
  /\ sheets[last.zone] # <<>>
  /\ Len(RowsOf(sheets[last.zone], latest_date_of(sheets[last.zone]),
                last.member)) = 1
  /\ \E i \in 1..Len(last.master) :
       /\ last.master[i].name = last.member
       /\ last.master[i].zone # last.zone

\* C4: no zone table holds two rows with the same (period, member name).
C4_KeysUnique ==
  \A z \in Zones :
    \A i, j \in 1..Len(sheets[z]) :
      i < j => ~ ( /\ sheets[z][i].date = sheets[z][j].date
                   /\ sheets[z][i].name = sheets[z][j].name )

\* C5: a roster save in which the zone of an existing member changed has
\* called sync_member_to_zones for that member with the new and the old
\* zone.
C5_ZoneChangeTriggersSync ==
  last.op = "roster" =>
    \A idx \in 1..Len(last.edited) :
      ( /\ idx <= Len(last.master)
        /\ last.edited[idx].name = last.master[idx].name
        /\ last.edited[idx].zone # last.master[idx].zone ) =>
        <<last.edited[idx].name, last.edited[idx].zone,
          last.master[idx].zone>> \in Range(last.calls)

\* the zero-flag record of a roster row for a period
RecordFor(m, date) ==
  [date |-> date, name |-> m.name, role |-> m.role, status |-> m.status,
   flags |-> ZeroFlags]

\* the zones that occur among the roster rows passing the region filter
MatchingZones(master_df, region_filter) ==
  {master_df[i].zone :
     i \in {k \in 1..Len(master_df) :
              region_filter = "all" \/ master_df[k].region = region_filter}}

\* the records create_monthly_records built for a zone are exactly one
\* RecordFor per row of members, and nothing else
EmitsExactly(emitted, members, date) ==
  /\ Len(emitted) = Len(members)
  /\ \A i \in 1..Len(members) :
       LET Same(r) == r = RecordFor(members[i], date)
       IN Len(SelectSeq(emitted, Same)) = 1

Occurrences(df, row) ==
  LET Same(r) == r = row
  IN Len(SelectSeq(df, Same))

C8_SortedByRecency ==
  last.op = "generate" =>
    \A z \in last.saved :
      \A i, j \in 1..Len(sheets[z]) :
        i < j => sort_key(sheets[z][i].date) >= sort_key(sheets[z][j].date)

\* C8 witness: the generated month is older than a month the table
\* already held, so the new block does not belong on top.
C8_Witness ==
  /\ last.op = "generate"
  /\ \E z \in last.saved :
       \E r \in Range(last.pre[z]) : sort_key(r.date) > sort_key(last.month)

\* ---- C9

\* the rows a summary counts as the period's active members
ActiveInPeriod(inp) ==
  LET Counted(r) ==
        /\ r.status = "active"
        /\ IF inp.kind = "final" THEN r.date = inp.month
           ELSE r.date[1] = inp.month[1] /\ r.date[2] = inp.month[2]
  IN SelectSeq(inp.zone_df, Counted)

\* C9: every indicator rate of a zone summary lies in 0..100 for every
\* table and period, and with no active member in the period no rate other
\* than 0 is produced
C9_RatesWithinPercent ==
  (input.kind \in {"final", "v2"} /\ result # <<>> /\ result[1].found) =>
     /\ \A k \in 1..NumIndicators : result[1].rates[k] \in 0..100
     /\ result[1].hanja \in 0..100
     /\ ActiveInPeriod(input) = <<>> =>
          \A k \in 1..NumIndicators : result[1].rates[k] = 0

\* ---- C10

\* the sum of rate times weight over the six indicators, written out
WeightedSum(inp) ==
  inp.row[1] * inp.weights[1] + inp.row[2] * inp.weights[2]
  + inp.row[3] * inp.weights[3] + inp.row[4] * inp.weights[4]
  + inp.row[5] * inp.weights[5] + inp.row[6] * inp.weights[6]

\* the number of weighted-sum units in one tenth of a score point
UnitsPerTenth(inp) ==
  IF inp.kind = "score" THEN 10 * WeightUnit ELSE 100 * WeightUnit

\* n is a multiple of unit nearest to total
NearestTo(n, total, unit) ==
  /\ 2 * (n * unit - total) <= unit
  /\ 2 * (total - n * unit) <= unit

\* C10: the composite score is the sum over the six indicators of
\* rate * weight / 100 rounded to one decimal place; a repeated call on the
\* same arguments returns the same value, and no call changes the summary
\* or the weights
C10_ScoreIsRoundedWeightedSum ==
  input.kind \in {"score", "app"} =>
    \A c \in 1..Len(result) :
      /\ NearestTo(result[c].score, WeightedSum(input), UnitsPerTenth(input))
      /\ result[c].score = result[1].score
      /\ result[c].row = input.row
      /\ result[c].weights = input.weights

\* a summary scored twice with untouched sliders, the sum falling strictly
\* between two tenths
C10_Witness ==
  /\ input.kind = "score"
  /\ Len(result) = MaxCalls
  /\ input.weights[1] = default_weight
  /\ input.row[6] > 0
  /\ WeightedSum(input) % (10 * WeightUnit) # 0
  /\ result[1].score > 0

\* ---- C11

\* the rank a frame gives a zone (0 when the zone is not in it)
RankOf(board, zone) ==
  IF \E i \in 1..Len(board) : board[i].summary.guyeok = zone
    THEN (CHOOSE i \in 1..Len(board) : board[i].summary.guyeok = zone)
    ELSE 0

\* the ranks of a frame are 1..N, each once
RanksArePermutation(board) ==
  /\ \A i \in 1..Len(board) : board[i].rank \in 1..Len(board)
  /\ \A i, j \in 1..Len(board) : i # j => board[i].rank # board[j].rank

\* a strictly higher score has a strictly smaller rank
RanksFollowScores(board) ==
  \A i, j \in 1..Len(board) :
    board[i].score > board[j].score => board[i].rank < board[j].rank

\* C11: ranking N summaries gives the ranks 1..N, each once, in order of
\* composite score descending, and ranking the ranked frame again gives
\* every zone the rank it had
C11_RanksArePermutationAndStable ==
  input.kind = "board" =>
    /\ \A c \in 1..Len(result) :
         /\ RanksArePermutation(result[c].board)
         /\ RanksFollowScores(result[c].board)
    /\ Len(result) = 2 =>
         \A i \in 1..Len(result[1].board) :
           result[2].board[i].summary.guyeok = result[1].board[i].summary.guyeok

\* ---- C12

\* the zone labels in ascending order ("1-guyeok" < "2-guyeok" < "5-guyeok")
LabelOrder == [zone1 |-> 1, zone2 |-> 2, zone5 |-> 5]

\* C12: of two zones with equal composite scores the one with the smaller
\* zone label is ranked first, whatever the order in which the zones were
\* loaded
C12_TiesBrokenByZoneLabel ==
  (input.kind = "board" /\ result # <<>>) =>
    \A i, j \in 1..Len(result[1].board) :
      LET a == result[1].board[i]
          b == result[1].board[j]
      IN (a.score = b.score
          /\ LabelOrder[a.summary.guyeok] < LabelOrder[b.summary.guyeok])
           => a.rank < b.rank

\* ---- C13

\* the zones whose table has an active row for the selected period
ZonesWithActiveData(inp) ==
  {z \in Range(inp.all_zones) :
     \E i \in 1..Len(inp.tables[z]) :
       /\ inp.tables[z][i].date = inp.month
       /\ inp.tables[z][i].status = "active"}

ZonesOnBoard(board) == {board[i].summary.guyeok : i \in 1..Len(board)}

\* C13: a zone without a record, or without an active record, for the
\* selected period has no summary, and the scoreboard ranks exactly the
\* zones that have an active record for the period
C13_OnlyZonesWithActiveDataRanked ==
  (input.kind = "board" /\ result # <<>>) =>
    /\ ZonesOnBoard(result[1].board) = ZonesWithActiveData(input)
    /\ Len(result[1].board) = Cardinality(ZonesWithActiveData(input))
    /\ RanksArePermutation(result[1].board)

\* a scoreboard with two ranked zones and a third zone whose table has rows
\* for the period, none of them active
C13_Witness ==
  /\ input.kind = "board"
  /\ result # <<>>
  /\ Len(result[1].board) = 2
  /\ \E z \in BoardZones :
       /\ z \notin ZonesOnBoard(result[1].board)
       /\ \E i \in 1..Len(input.tables[z]) :
            input.tables[z][i].date = input.month

\* ---- C14

RECURSIVE FlagTotal(_, _)
\* the number of rows with flag k set
FlagTotal(rows, k) ==
  IF rows = <<>> THEN 0
  ELSE (IF Head(rows).flags[k] = 1 THEN 1 ELSE 0) + FlagTotal(Tail(rows), k)

\* the rows of the single sheet that pass the filters, are active and
\* belong to one zone
ActiveFlatRows(inp, zone) ==
  LET Counted(r) ==
        /\ r.status = "active"
        /\ r.zone = zone
        /\ r.date[1] = inp.month[1] /\ r.date[2] = inp.month[2]
        /\ inp.region \in {"all", r.region}
        /\ inp.zone \in {"all", r.zone}
  IN SelectSeq(inp.df, Counted)

\* the head count a summary divides by, given the active rows
HeadCount(kind, rows) ==
  IF kind = "v2" THEN Cardinality({rows[i].name : i \in 1..Len(rows)})
  ELSE Len(rows)

\* a summary is computed from these rows alone; unit is 1 for whole-number
\* rates and 10 for rates held in tenths
ComputedFrom(summary, kind, rows, unit) ==
  /\ rows # <<>>
  /\ summary.total = HeadCount(kind, rows)
  /\ \A k \in 1..NumIndicators :
       NearestTo(summary.rates[k], 100 * unit * FlagTotal(rows, k),
                 summary.total)

\* C14: the head count and every indicator sum of a zone summary are taken
\* over the activity rows whose own status is active; rows with status
\* excluded do not enter them, whatever the roster says about the member
C14_OnlyActiveRowsCounted ==
  /\ (input.kind \in {"final", "v2"} /\ result # <<>> /\ result[1].found) =>
       ComputedFrom(result[1], input.kind, ActiveInPeriod(input), 1)
  /\ (input.kind = "flat" /\ result # <<>>) =>
       \A i \in 1..Len(result[1].board) :
         LET summary == result[1].board[i].summary
         IN /\ ComputedFrom(summary, "flat",
                            ActiveFlatRows(input, summary.guyeok), 10)
            /\ \A k \in 1..NumIndicators :
                 summary.sums[k] =
                   FlagTotal(ActiveFlatRows(input, summary.guyeok), k)

\* a summary of a table that holds, for the period, an active row and a row
\* with status excluded whose flags are set, of a member the roster has as
\* active
C14_Witness ==
  /\ input.kind = "final"
  /\ result # <<>>
  /\ result[1].found
  /\ \E i \in 1..Len(input.zone_df) :
       /\ input.zone_df[i].date = input.month
       /\ input.zone_df[i].status = "excluded"
       /\ input.zone_df[i].flags[1] = 1
       /\ \E j \in 1..Len(record_db) :
            /\ record_db[j].name = input.zone_df[i].name
            /\ record_db[j].status = "active"

\* ---- C15

\* the zone rows of a frame that belong to one region
ZoneRowsOf(board, region) ==
  LET InRegion(r) == r.summary.jiyeok = region
  IN SelectSeq(board, InRegion)

RECURSIVE RateTotal(_, _)
\* the zone rates of indicator k added up
RateTotal(rows, k) ==
  IF rows = <<>> THEN 0
  ELSE Head(rows).summary.rates[k] + RateTotal(Tail(rows), k)

\* shown is the mean of the n values adding up to total, cut to a whole
\* number of units
ShownMean(shown, total, n) ==
  /\ n * shown <= total
  /\ total < n * (shown + 1)

\* a / b is the mean of the rates 100 * s / c of the given zones; written
\* for at most two zones, without division
MeanOfZoneRates(a, b, zs, k) ==
  IF Len(zs) = 1
    THEN a * zs[1].total = 100 * zs[1].sums[k] * b
    ELSE 2 * a * zs[1].total * zs[2].total
           = 100 * b * (zs[1].sums[k] * zs[2].total
                        + zs[2].sums[k] * zs[1].total)

\* C15: the value shown for a region is, for each indicator, the mean of
\* the rates of the region's zones, each zone counting once whatever its
\* head count
C15_RegionRateIsMeanOfZoneRates ==
  /\ (input.kind = "board" /\ result # <<>>) =>
       \A i \in 1..Len(result[1].totals) :
         LET t == result[1].totals[i]
             zs == ZoneRowsOf(result[1].board, t.jiyeok)
         IN \A k \in 1..NumIndicators :
              ShownMean(t.rates[k], RateTotal(zs, k), Len(zs))
  /\ (input.kind = "flat" /\ result # <<>>) =>
       \A i \in 1..Len(result[1].regions) :
         LET g == result[1].regions[i]
             rows == ZoneRowsOf(result[1].board, g.jiyeok)
             zs == [j \in 1..Len(rows) |-> rows[j].summary]
         IN \A k \in 1..NumIndicators :
              MeanOfZoneRates(100 * g.sums[k], g.total, zs, k)

\* ---- C16

\* the rows of the period (behind the region and zone filters) of active
\* members who did not attend
MissingRows(inp) ==
  LET Counted(r) ==
        /\ r.status = "active"
        /\ r.flags[1] = 0
        /\ r.date[1] = inp.month[1] /\ r.date[2] = inp.month[2]
        /\ inp.region \in {"all", r.region}
        /\ inp.zone \in {"all", r.zone}
  IN SelectSeq(inp.df, Counted)

\* the dates on which a member attended, anywhere in the sheet
AttendedDates(inp, name) ==
  {inp.df[i].date : i \in {j \in 1..Len(inp.df) :
                             /\ inp.df[j].name = name
                             /\ inp.df[j].flags[1] = 1}}

\* d is the latest of a set of dates
LatestOf(d, dates) ==
  /\ d \in dates
  /\ \A e \in dates :
       \/ e[1] < d[1]
       \/ e[1] = d[1] /\ e[2] < d[2]
       \/ e[1] = d[1] /\ e[2] = d[2] /\ e[3] <= d[3]

\* C16: the missing-members list names exactly the active members with
\* overall attendance 0 in the period, each with the latest date on which
\* the member attended anywhere in the full history, and with 'no record'
\* only when the full history has no such date
C16_MissingListUsesFullHistory ==
  (input.kind = "flat" /\ result # <<>>) =>
    /\ {result[1].missing[i].name : i \in 1..Len(result[1].missing)}
         = {MissingRows(input)[i].name : i \in 1..Len(MissingRows(input))}
    /\ \A i \in 1..Len(result[1].missing) :
         LET e == result[1].missing[i]
         IN IF AttendedDates(input, e.name) = {}
              THEN e.last = NoRecord
              ELSE LatestOf(e.last, AttendedDates(input, e.name))

(* ------------------- C17: the cache and a failed save ----------------- *)

\* the handlers that end with a save button
SaveHandlers == {"editor", "generate", "roster"}

\* the step is a run of a save handler
SaveHandlerStep == steps' = steps + 1 /\ last'.op \in SaveHandlers

\* every cache entry held before the step is held unchanged after it
CacheEntriesKept ==
  /\ master_cache # <<>> => master_cache' = master_cache
  /\ \A z \in Zones : zone_cache[z] # <<>> => zone_cache'[z] = zone_cache[z]

\* C17: a save handler (record editor, period provisioning, roster save)
\* whose write-back reports failure leaves every entry of the read cache
\* as it was and shows the failure to the user; the handler drops cache
\* entries only when its write-back reported success
C17_CacheKeptOnFailedSave ==
  [][SaveHandlerStep =>
       /\ ~last'.ret => (CacheEntriesKept /\ last'.shown = "error")
       /\ ~CacheEntriesKept => (last'.ret /\ last'.shown = "success")]_vars

\* a save failed, the user saw the error, and the cache still holds the
\* roster and a zone that the failed handler did not load itself
C17_Witness ==
  /\ last.op = "editor"
  /\ ~last.ret
  /\ last.shown = "error"
  /\ last.failed = {last.zone}
  /\ master_cache # <<>>
  /\ \E z \in Zones \ {last.zone} : zone_cache[z] # <<>>

(* ------------------- C18: reads after a successful write ------------- *)

\* what an uncached load_zone_data of the zone returns now
FreshRows(z) ==
  LET HasDate(r) == r.date # NoDate
  IN SelectSeq(sheets[z], HasDate)

\* the next load of the zone returns the rows of its sheet
ServedFresh(z) == zone_cache[z] # <<>> => zone_cache[z][1] = FreshRows(z)

\* C18: once an operation of the application has written a table with
\* success, the next load of that table returns the rows just written and
\* not an older cached copy: a zone saved by the last operation is not
\* held in the cache with other rows than its sheet's, and neither is the
\* roster after a successful roster save.  (A direct call of
\* create_monthly_records is left out: its only caller clears the cache
\* whenever a zone was saved.)
C18_WrittenTableNotServedStale ==
  /\ last.op \in {"sync", "editor", "generate", "roster"} =>
       \A z \in last.saved : ServedFresh(z)
  /\ (last.op = "roster" /\ last.ret) =>
       (master_cache # <<>> => master_cache[1] = record_db)

(* ------------------- C19: two sessions on one table ------------------- *)

\* both sessions have finished a save on the same zone table, and the
\* second of them read the table before the first had written it back
OverlappedSaves ==
  /\ runs.overlap
  /\ \A s \in Sessions : runs.run[s].pc = "done"

\* C19: when the read-modify-write cycles of two sessions on the same zone
\* table overlap, the table ends up holding exactly the frame of the
\* session that wrote last, nothing that only the earlier writer wrote is
\* left in it, and both sessions are shown a success
C19_LastWriterWins ==
  OverlappedSaves =>
    LET winner == runs.run[runs.order[2]]
        loser == runs.run[runs.order[1]]
    IN /\ sheets[winner.zone] = winner.df
       /\ \A i \in 1..Len(loser.df) :
            loser.df[i] \in Range(sheets[winner.zone]) =>
              loser.df[i] \in Range(winner.df)
       /\ \A s \in Sessions : runs.run[s].shown = "success"

(* ------------------- C20: a table that does not exist ----------------- *)

\* what the call of fn returned
OutOf(fn) == result[CHOOSE i \in 1..Len(result) : result[i].fn = fn].out

\* the sheet with this title does not exist (and the API answers)
IsMissing(title) == title \notin input.titles /\ title \notin input.failing

\* the months found in the sheets of all_zones that can be read
MonthsOfExisting ==
  UNION {{input.sheets[z][i].date : i \in 1..Len(input.sheets[z])} \ {NoDate} :
           z \in {y \in Range(input.all_zones) \cap Zones :
                    y \in input.titles /\ y \notin input.failing}}

\* C20: a missing table is an empty dataset and not an error:
\* load_zone_data of a zone without a sheet returns an empty table,
\* load_master_db without Record_DB returns an empty roster that has the
\* roster columns, neither shows an error, and get_available_months lists
\* exactly the months of the zone sheets that exist, each once, latest
\* first, whatever sheets are missing
C20_MissingTableIsEmptyDataset ==
  input.kind = "book" =>
    /\ (Called("load_zone_data") /\ IsMissing(input.zone)) =>
         /\ OutOf("load_zone_data").rows = <<>>
         /\ OutOf("load_zone_data").shown # "error"
    /\ (Called("load_master_db") /\ IsMissing("Record_DB")) =>
         /\ OutOf("load_master_db").rows = <<>>
         /\ OutOf("load_master_db").columns = RosterColumns
         /\ OutOf("load_master_db").shown # "error"
    /\ Called("get_available_months") =>
         LET months == OutOf("get_available_months")
         IN /\ Range(months) = MonthsOfExisting
            /\ \A i \in 1..Len(months), j \in 1..Len(months) :
                 i < j => months[i] > months[j]

\* Record_DB and the sheet of the zone asked for are missing, another
\* zone of all_zones has a sheet with months, and all three functions ran
C20_Witness ==
  /\ input.kind = "book"
  /\ Called("load_zone_data") /\ IsMissing(input.zone)
  /\ Called("load_master_db") /\ IsMissing("Record_DB")
  /\ Called("get_available_months")
  /\ input.zone \in Range(input.all_zones)
  /\ Len(OutOf("get_available_months")) = 2

(* ------------------- C21: indicator cells on load --------------------- *)

\* every indicator value of the loaded frame is an integer
AllIndicatorsInt(df) ==
  \A i \in 1..Len(df), k \in 1..NumIndicators : df[i].flags[k].kind = "int"

\* the cell is not a number
Malformed(cell) == cell.kind \in {"blank", "text"}

\* C21: a load of a sheet that has rows succeeds whatever the indicator
\* cells hold, every indicator value of the frame it returns is an
\* integer, and a cell that was empty or not a number is 0 in it
C21_IndicatorsCoercedToInt ==
  (input.kind \in {"raw_flat", "raw_zone"} /\ result # <<>>
   /\ input.data # <<>>) =>
    /\ result[1].ok
    /\ result[1].shown # "error"
    /\ AllIndicatorsInt(result[1].df)
    /\ input.kind = "raw_flat" =>
         /\ Len(result[1].df) = Len(input.data)
         /\ \A i \in 1..Len(input.data), k \in 1..NumIndicators :
              Malformed(input.data[i].flags[k]) =>
                result[1].df[i].flags[k] = IntCell(0)

(* ------------------- C22: weights that do not sum to 100 -------------- *)

\* the sum of the six weights, written out
WeightSum(w) == w[1] + w[2] + w[3] + w[4] + w[5] + w[6]

\* the sum of rate times weight of one scoreboard row, written out
RowWeightedSum(rates, w) ==
  rates[1] * w[1] + rates[2] * w[2] + rates[3] * w[3] + rates[4] * w[4]
  + rates[5] * w[5] + rates[6] * w[6]

\* C22: with six weights that do not sum to 100 the sidebar shows a
\* warning and nothing else changes: every zone with a summary is on the
\* scoreboard with a rank, the ranks are 1..N in score order, and every
\* score is the sum of rate * weight / 100 with the weights as given
C22_WeightsUsedAsGiven ==
  (input.kind = "board" /\ result # <<>>
   /\ WeightSum(input.weights) # 100 * WeightUnit) =>
    /\ result[1].sidebar = "warning"
    /\ ZonesOnBoard(result[1].board) = ZonesWithActiveData(input)
    /\ RanksArePermutation(result[1].board)
    /\ RanksFollowScores(result[1].board)
    /\ \A i \in 1..Len(result[1].board) :
         NearestTo(result[1].board[i].score,
                   RowWeightedSum(result[1].board[i].summary.rates,
                                  input.weights),
                   10 * WeightUnit)

\* a scoreboard of two zones with different scores under weights that sum
\* to 60
C22_Witness ==
  /\ input.kind = "board"
  /\ result # <<>>
  /\ WeightSum(input.weights) = 60 * WeightUnit
  /\ result[1].sidebar = "warning"
  /\ Len(result[1].board) >= 2
  /\ result[1].board[1].score > result[1].board[2].score
  /\ result[1].board[2].score > 0

(* ------------------- C23: removal of a member ------------------------- *)

\* the member names of a roster frame
NamesIn(df) == {df[i].name : i \in 1..Len(df)}

\* C23: removal is a soft delete: a roster save that succeeds leaves every
\* member that was in the roster table in it, so the set of member names
\* in the table never shrinks
C23_RosterNeverShrinks ==
  [][(last'.op = "roster" /\ last'.ret /\ steps' = steps + 1) =>
       NamesIn(record_db) \subseteq NamesIn(record_db')]_vars

(* ------------------- C24: the exclusion in the old zone --------------- *)

\* a sync_member_to_zones call that wrote the old zone's table, having
\* read it as it was on the backend
ExcludedInOldZone ==
  /\ last.op = "sync"
  /\ last.ret
  /\ last.old_zone # ""
  /\ last.old_zone # last.zone
  /\ last.old_zone \in last.saved
  /\ last.loaded[last.old_zone] = last.pre[last.old_zone]

\* row i of the table is a record of the member in the member's most
\* recent period there
IsMostRecentOf(df, i, name) ==
  LET Mine(r) == r.name = name
  IN /\ df[i].name = name
     /\ df[i].date = latest_date_of(SelectSeq(df, Mine))

\* C24: the exclusion in the old zone changes only the status of the
\* member's most recent record there: the table keeps its rows, and every
\* other row, the member's records of earlier periods included, is written
\* back as it was
C24_OnlyMostRecentRecordExcluded ==
  ExcludedInOldZone =>
    LET before == last.pre[last.old_zone]
        after == sheets[last.old_zone]
    IN /\ Len(after) = Len(before)
       /\ \A i \in 1..Len(before) :
            IF IsMostRecentOf(before, i, last.member)
              THEN after[i] = [before[i] EXCEPT !.status = "excluded"]
              ELSE after[i] = before[i]

(* ------------------- C25: first match wins ---------------------------- *)

\* the edited row as it is written: with its date as text
AsWritten(row) == [row EXCEPT !.date = strftime(@)]

\* the positions of the stored rows that have the key of the edited row
MatchesOf(stored, row) ==
  {i \in 1..Len(stored) : key_matches(stored[i], AsWritten(row))}

\* position i is the first stored row of the key of some edited row
IsFirstMatch(i) ==
  \E e \in 1..Len(input.df) :
    /\ i \in MatchesOf(input.stored, input.df[e])
    /\ \A j \in MatchesOf(input.stored, input.df[e]) : i <= j

\* the last edited row whose key is the key of stored row i
LastEditOf(i) ==
  LET es == {e \in 1..Len(input.df) :
               i \in MatchesOf(input.stored, input.df[e])}
  IN input.df[MaxOf(es)]

\* what C25 says of the rows written
FirstMatchWritten ==
  /\ Len(result[1].rows) = Len(input.stored)
  /\ \A i \in 1..Len(input.stored) :
       IF IsFirstMatch(i)
         THEN result[1].rows[i] = AsWritten(LastEditOf(i))
         ELSE result[1].rows[i] = input.stored[i]

\* C25 as stated: every edited row overwrites exactly the first stored row
\* of its key, every other stored row and the number of rows are
\* unchanged, an edited row without a stored row of its key is not written,
\* and the function returns True all the same
C25_FirstMatchWinsAlwaysTrue ==
  (input.kind = "update" /\ result # <<>>) =>
    /\ FirstMatchWritten
    /\ result[1].ret

\* C25 amended: as above when the sheet holds at least one row; on a sheet
\* without rows and with edited rows the function returns False and
\* writes nothing
C25_FirstMatchWins ==
  (input.kind = "update" /\ result # <<>>) =>
    /\ FirstMatchWritten
    /\ input.stored # <<>> => result[1].ret
    /\ (input.stored = <<>> /\ input.df # <<>>) => ~result[1].ret

\* two stored rows share a key, one edited row has that key and another
\* edited row has a key that no stored row has
C25_Witness ==
  /\ input.kind = "update"
  /\ result # <<>>
  /\ result[1].ret
  /\ Len(input.stored) = 2
  /\ input.stored[1] = input.stored[2]
  /\ Len(input.df) = 2
  /\ MatchesOf(input.stored, input.df[1]) = {1, 2}
  /\ MatchesOf(input.stored, input.df[2]) = {}
  /\ result[1].rows[1] # input.stored[1]
  /\ result[1].rows[2] = input.stored[2]

(* ------------------- C26: two moves in one roster save ---------------- *)

\* the member is excluded in the old zone's table and has a row in the
\* most recent period of the new zone's table
Reassigned(tables, name, new_zone, old_zone) ==
  /\ \A r \in Range(MostRecentOf(tables[old_zone], name)) :
       r.status = "excluded"
  /\ tables[new_zone] # <<>>
  /\ RowsOf(tables[new_zone], latest_date_of(tables[new_zone]), name) # <<>>

\* the last call moved a member between two zones with every write
\* completed, the tables show it, and nothing has cleared the cache since
FirstMoveDone ==
  /\ last.op = "sync"
  /\ last.ret
  /\ last.failed = {}
  /\ last.old_zone # ""
  /\ last.old_zone # last.zone
  /\ zone_cache[last.old_zone] # <<>>
  /\ zone_cache[last.zone] # <<>>
  /\ Reassigned(sheets, last.member, last.zone, last.old_zone)

\* the step is a call for another member between the same two zones,
\* every write of which completed; both members have records in the old
\* zone's table
SecondMoveStep ==
  /\ steps' = steps + 1
  /\ last'.op = "sync"
  /\ last'.ret
  /\ last'.failed = {}
  /\ last'.member # last.member
  /\ last'.zone = last.zone
  /\ last'.old_zone = last.old_zone
  /\ MostRecentOf(sheets[last.old_zone], last.member) # <<>>
  /\ MostRecentOf(sheets[last.old_zone], last'.member) # <<>>

\* C26: two calls of sync_member_to_zones, one after the other without a
\* cache invalidation between them, for two members moving between the
\* same two zones leave both members reassigned: the second call does not
\* write back a table read before the first call's change
C26_BothMovesKept ==
  [][(FirstMoveDone /\ SecondMoveStep) =>
       /\ Reassigned(sheets', last.member, last.zone, last.old_zone)
       /\ Reassigned(sheets', last'.member, last.zone, last.old_zone)]_vars

(* ------------------- C27: the move as one unit ------------------------- *)

\* the last call was a move between two different zones and read both
\* tables as they were stored
SyncMoveFresh ==
  /\ last.op = "sync"
  /\ last.old_zone # ""
  /\ last.old_zone # last.zone
  /\ last.loaded[last.old_zone] = last.pre[last.old_zone]
  /\ last.loaded[last.zone] = last.pre[last.zone]

\* the active records of a member in a table
ActiveRecordsOf(df, name) ==
  LET Mine(r) == r.name = name /\ r.status = "active"
  IN SelectSeq(df, Mine)

\* the call turned an active record of the member in the old zone's table
\* into an excluded one
ExcludedByCall ==
  /\ ActiveRecordsOf(last.pre[last.old_zone], last.member) # <<>>
  /\ ActiveRecordsOf(sheets[last.old_zone], last.member) = <<>>
  /\ \E i \in 1..Len(sheets[last.old_zone]) :
       /\ sheets[last.old_zone][i].name = last.member
       /\ sheets[last.old_zone][i].status = "excluded"

\* C27: sync_member_to_zones is all-or-nothing over the two zone tables:
\* it returns True only when no save_zone_data call failed, and it never
\* leaves the member excluded in the old zone without an active row in
\* the new zone
C27_MoveAllOrNothing ==
  SyncMoveFresh =>
    /\ last.ret => last.failed = {}
    /\ ExcludedByCall =>
         ActiveRecordsOf(sheets[last.zone], last.member) # <<>>

(* ------------------- C28: calls that must not exclude ------------------ *)

\* the last call named a member no roster row has
SyncOfStranger ==
  /\ last.op = "sync"
  /\ last.member \notin NamesIn(last.master)

\* the last call had no old zone, or the old zone is the new zone
SyncWithoutMove ==
  /\ last.op = "sync"
  /\ last.old_zone \in {"", last.zone}

\* a call for an unknown name returns False and writes nothing
StrangerWritesNothing ==
  SyncOfStranger =>
    /\ ~last.ret
    /\ sheets = last.pre
    /\ last.saved = {}
    /\ last.failed = {}

\* C28 as stated: a call for a name that is not in the roster returns
\* False and writes nothing, and a call whose old zone is absent or is the
\* new zone leaves the old zone's table as it was
C28_OldZoneNeverModified ==
  /\ StrangerWritesNothing
  /\ (SyncWithoutMove /\ last.old_zone # "" /\ last.failed = {}) =>
       sheets[last.old_zone] = last.pre[last.old_zone]

\* C28, amended: a call for a name that is not in the roster returns False
\* and writes nothing; a call whose old zone is absent or is the new zone
\* excludes nobody: it writes no table but the new zone's, and what it
\* writes there is the table as loaded followed by the member's new
\* active row
C28_NoExclusionWithoutMove ==
  /\ StrangerWritesNothing
  /\ SyncWithoutMove =>
       /\ \A z \in Zones \ {last.zone} : sheets[z] = last.pre[z]
       /\ last.saved \cup last.failed \subseteq {last.zone}
       /\ last.zone \in last.saved =>
            /\ Len(sheets[last.zone]) = Len(last.loaded[last.zone]) + 1
            /\ SubSeq(sheets[last.zone], 1, Len(last.loaded[last.zone]))
                 = last.loaded[last.zone]
            /\ sheets[last.zone][Len(sheets[last.zone])].name = last.member
            /\ sheets[last.zone][Len(sheets[last.zone])].status = "active"
       /\ last.zone \notin last.saved \cup last.failed =>
            sheets[last.zone] = last.pre[last.zone]

\* a call for an unknown name between two zones whose tables hold rows
C28_Witness ==
  /\ SyncOfStranger
  /\ last.old_zone # ""
  /\ last.old_zone # last.zone
  /\ sheets[last.old_zone] # <<>>
  /\ sheets[last.zone] # <<>>

(* ------------------- C29: the record editor's save --------------------- *)

\* the rows of one period in a table
RowsOfPeriod(df, date) ==
  LET Same(r) == r.date = date
  IN SelectSeq(df, Same)

\* the two frames hold the same rows the same number of times
SameRows(a, b) ==
  /\ Len(a) = Len(b)
  /\ \A r \in Range(a) \cup Range(b) :
       Cardinality({i \in 1..Len(a) : a[i] = r})
         = Cardinality({i \in 1..Len(b) : b[i] = r})

\* the table is in non-increasing order of month number
MonthDescending(df) ==
  \A i, j \in 1..Len(df) :
    i < j => sort_key(df[i].date) >= sort_key(df[j].date)

\* the last step saved the record editor
EditorSaved ==
  /\ last.op = "editor"
  /\ last.zone \in last.saved

\* C29: a save of the record editor for one zone and period replaces
\* exactly the rows of that period by the edited rows: the rows of every
\* other period of the table as loaded are written back unchanged, the
\* row count is unchanged, and the written table is in descending order
\* of month number
C29_EditorReplacesOnePeriod ==
  EditorSaved =>
    LET zone_df == last.loaded[last.zone]
        written == sheets[last.zone]
    IN /\ SameRows(RowsOfPeriod(written, last.month), last.edited)
       /\ \A d \in (DatesOf(zone_df) \cup DatesOf(written)) \ {last.month} :
            SameRows(RowsOfPeriod(written, d), RowsOfPeriod(zone_df, d))
       /\ Len(written) = Len(zone_df)
       /\ MonthDescending(written)

\* a saved edit of the later of two periods that changed a row
C29_Witness ==
  /\ EditorSaved
  /\ \E d \in DatesOf(last.loaded[last.zone]) :
       sort_key(d) < sort_key(last.month)
  /\ last.edited # RowsOfPeriod(last.loaded[last.zone], last.month)

(* ------------------- C30: the result of a generation ------------------- *)

\* the last step ran create_monthly_records from the generation tab
Generated == last.op = "generate"

\* the zones the run has to provision: those with an active roster row
\* that passes the region filter
ZonesToProvision ==
  {z \in Zones : Provisioned(last.master, last.region, z) # <<>>}

\* C30: create_monthly_records returns True exactly when at least one
\* zone table was saved; a zone outside the region filter or without an
\* active roster member is neither read nor written; every zone to
\* provision is attempted whatever happened to the zones before it, and
\* each one whose save succeeded holds the new rows
C30_TrueIffSomeZoneSaved ==
  Generated =>
    /\ last.ret <=> last.saved # {}
    /\ \A z \in Zones \ ZonesToProvision :
         /\ z \notin last.saved \cup last.failed
         /\ last.loaded[z] = <<>>
         /\ last.emitted[z] = <<>>
         /\ sheets[z] = last.pre[z]
    /\ last.saved \cup last.failed = ZonesToProvision
    /\ \A z \in last.saved :
         /\ last.emitted[z] # <<>>
         /\ \A r \in Range(last.emitted[z]) : r \in Range(sheets[z])

\* a run in which the save of the first zone failed and the save of a
\* later zone succeeded: the result is True
C30_Witness ==
  /\ Generated
  /\ last.ret
  /\ last.failed = {"zone1"}
  /\ last.saved = {"zone5"}

====
